---------------------------- MODULE Spec2Model ----------------------------
(***************************************************************************)
(* rust-paper: the synchronisation engine (src/src/lib.rs), the integrity  *)
(* ledger (src/src/lock.rs) and the helpers they use (src/src/helper.rs).  *)
(*                                                                         *)
(* Spec       one run of RustPaper::sync from any starting disk state:     *)
(*            the plan, the concurrent verify tasks, the concurrent        *)
(*            download tasks (process_wallpaper_optimized) and the         *)
(*            orchestrator's counters.                                     *)
(* LedgerSpec a LockFile object driven through add / remove from the empty *)
(*            ledger, as the unit tests of lock.rs drive it.               *)
(*                                                                         *)
(* ListSpec   RustPaper::add and RustPaper::remove called in any order on  *)
(*            a list the program wrote, the ledger empty.                  *)
(* RemoveSpec RustPaper::remove called on such a list with the ledger      *)
(*            holding an entry of every ID.                                *)
(* ValidateSpec, UrlSpec                                                   *)
(*            helper::validate_wallpaper_id applied to a string, and the   *)
(*            IDs add, remove and info take from an item URL.              *)
(* CleanSpec  one run of RustPaper::clean from any starting disk state.    *)
(* CommandSpec                                                             *)
(*            one process: RustPaper::new and then one of sync, remove and *)
(*            clean, as main.rs runs them.                                 *)
(* FairSpec   Spec with the fairness of the tokio runtime, for termination.*)
(* TwoSyncSpec                                                             *)
(*            a sync and the sync of the next process on what it left.     *)
(*                                                                         *)
(* Strings that the code builds by concatenation (paths) are sequences of  *)
(* tokens, so that two ways of building a path can differ. The strings the *)
(* list store and the helpers inspect (arguments, IDs, lines of the list   *)
(* file) are sequences of characters; sync takes its IDs as given and      *)
(* keeps them whole.                                                       *)
(***************************************************************************)
EXTENDS Integers, Sequences, FiniteSets, TLC

VARIABLES
    integrity,        \* config.integrity                       (config.rs:12)
    save_location,    \* config.save_location, a token sequence (config.rs:10)
    wallpapers,       \* RustPaper.wallpapers, the tracked list (lib.rs:27)
    fs,               \* the save directory: file name -> content
    lock_file,        \* RustPaper.lock_file: Option<LockFile>  (lib.rs:29)
    lock_disk,        \* the file wallpaper.lock
    mutex,            \* holder of the tokio Mutex around lock_file
    pc,               \* position of sync()
    file_map,         \* sync's local file_map                  (lib.rs:110)
    lock_file_map,    \* sync's local lock_file_map             (lib.rs:111)
    needs_download,   \* sync's local Vec                       (lib.rs:133)
    planned,          \* history: the action the plan gave each tracked ID
    vtask,            \* the spawned verify tasks               (lib.rs:161)
    dtask,            \* the spawned download tasks             (lib.rs:210)
    completed,        \* sync's local counter                   (lib.rs:220)
    errors,           \* sync's local counter                   (lib.rs:219)
    total,            \* sync's local: tasks.len()              (lib.rs:221)
    sync_result,      \* what sync() returned
    fs0,              \* history: fs when sync started
    lock0,            \* history: lock_file when sync started
    last_add,         \* history (LedgerSpec): per ID, the path and hash given
                      \* to the latest add since the latest remove
    last_op,          \* history: the last call of a method (LockFile::add /
                      \* remove, RustPaper::add / remove) and what it returned
    wallpapers_lst,   \* the file wallpapers.lst, a sequence of lines
                      \*                                         (lib.rs:94)
    arg,              \* the string a helper is applied to
    ret,              \* what the helper, or clean, returned
    files_to_check,   \* clean's local Vec, what is left of it  (lib.rs:402)
    clean_removed_count,
                      \* clean's local removed_count           (lib.rs:400)
    prev_sync         \* history: how the sync of the process before this
                      \* one ended ("up_to_date", "ok" when every download
                      \* succeeded, "errors"), "none" in a first process

vars == <<integrity, save_location, wallpapers, fs, lock_file, lock_disk,
          mutex, pc, file_map, lock_file_map, needs_download, planned, vtask,
          dtask, completed, errors, total, sync_result, fs0, lock0, last_add,
          last_op, wallpapers_lst, arg, ret, files_to_check,
          clean_removed_count, prev_sync>>

\* The locals of clean.
clean_vars == <<files_to_check, clean_removed_count>>

\* The list file, the argument and result of a helper under test, the
\* locals of clean and the history of the process before: the variables no
\* step of sync and no method of LockFile touches.
list_vars == <<wallpapers_lst, arg, ret, clean_vars, prev_sync>>

\* The locals of sync and its tasks, and the history taken when it starts.
sync_vars == <<mutex, pc, file_map, lock_file_map, needs_download, planned,
               vtask, dtask, completed, errors, total, sync_result, fs0,
               lock0, last_add>>

-----------------------------------------------------------------------------
(* Values *)

\* MAX_RETRY (lib.rs:20)
MAX_RETRY == 3

\* Cap on the length of a ledger in LedgerSpec; above the number of IDs, so it
\* never restricts LockAdd as written.
MaxEntries == 4

\* Number of wallpaper IDs of the model.
NumIds == 2

\* The IDs, in the order sort_unstable gives them.
IdNames == <<"aaaaa1", "bbbbb2", "ccccc3", "ddddd4">>
IdSeq == SubSeq(IdNames, 1, NumIds)
IDs == {IdSeq[k] : k \in 1..Len(IdSeq)}

\* File extensions get_img_extension can produce (two of them).
Exts == {"png", "jpeg"}

\* File contents: NoFile for an absent file, ServedBytes for the image the
\* remote serves (as re-encoded by save_with_format), OtherBytes for any other
\* content (a corrupted, truncated or foreign file).
NoFile == "absent"
ServedBytes == "served"
OtherBytes == "other"
Contents == {ServedBytes, OtherBytes}

FileNames == IDs \X Exts

Range(s) == {s[k] : k \in 1..Len(s)}

-----------------------------------------------------------------------------
(* helper.rs *)

\* calculate_sha256 on the bytes of a file: injective on contents.
NoHash == <<>>
Sha(c) == <<"sha256", c>>
Hashes == {Sha(c) : c \in Contents}

\* The format the remote serves for an ID and the extension
\* get_img_extension gives it.
ServedExt(id) == "png"

\* download_image's image_name: format!("{}/{}.{}", save_location, id, ext).
FormatPath(sl, id, ext) == sl \o <<"/", id, ".", ext>>

\* entry.path() of read_dir(save_path): PathBuf::join adds a separator only
\* when the directory does not already end with one.
JoinPath(sl, id, ext) ==
    IF Len(sl) > 0 /\ sl[Len(sl)] = "/"
    THEN sl \o <<id, ".", ext>>
    ELSE sl \o <<"/", id, ".", ext>>

\* The file a path names: the OS ignores repeated separators, every path the
\* program builds ends with <id> "." <ext> inside the save directory.
FileOf(p) == <<p[Len(p) - 2], p[Len(p)]>>

\* path.file_stem()
FileStem(p) == p[Len(p) - 2]

\* The results calculate_sha256(path) can give: Err when the file does not
\* exist; otherwise the hash of its bytes, or Err on an I/O error.
HashErr == [ok |-> FALSE, val |-> NoHash]
HashResults(files, p) ==
    IF files[FileOf(p)] = NoFile
    THEN {HashErr}
    ELSE {[ok |-> TRUE, val |-> Sha(files[FileOf(p)])], HashErr}

-----------------------------------------------------------------------------
(* helper.rs and the Rust standard library: strings *)

\* A string the list store inspects is a sequence of characters, each a
\* one-character string; "U+00E9" stands for the letter e-acute, which is
\* alphanumeric, not ASCII, and two bytes long in UTF-8.
Digit == {"0", "1", "2", "3", "4", "5", "6", "7", "8", "9"}
Upper == {"A", "B", "C", "D", "E", "F", "G", "H", "I", "J", "K", "L", "M",
          "N", "O", "P", "Q", "R", "S", "T", "U", "V", "W", "X", "Y", "Z"}
Lower == {"a", "b", "c", "d", "e", "f", "g", "h", "i", "j", "k", "l", "m",
          "n", "o", "p", "q", "r", "s", "t", "u", "v", "w", "x", "y", "z"}
NonAscii == {"U+00E9"}

\* char::is_ascii_alphanumeric
IsAsciiAlphanumeric(c) == c \in Digit \cup Upper \cup Lower

\* char::is_alphanumeric
IsAlphanumeric(c) == c \in Digit \cup Upper \cup Lower \cup NonAscii

\* str::len: the length in bytes of the UTF-8 encoding.
RECURSIVE ByteLen(_)
ByteLen(s) ==
    IF s = <<>> THEN 0
    ELSE (IF Head(s) \in NonAscii THEN 2 ELSE 1) + ByteLen(Tail(s))

\* The characters in the order of their bytes, for the comparison of strings.
ByteOrder ==
    <<" ", "#", ",", "-", ".", "/",
      "0", "1", "2", "3", "4", "5", "6", "7", "8", "9", ":", "=", "?",
      "A", "B", "C", "D", "E", "F", "G", "H", "I", "J", "K", "L", "M",
      "N", "O", "P", "Q", "R", "S", "T", "U", "V", "W", "X", "Y", "Z",
      "a", "b", "c", "d", "e", "f", "g", "h", "i", "j", "k", "l", "m",
      "n", "o", "p", "q", "r", "s", "t", "u", "v", "w", "x", "y", "z",
      "U+00E9">>
Byte(c) == CHOOSE k \in 1..Len(ByteOrder) : ByteOrder[k] = c

\* Ord for str: lexicographic on the bytes.
RECURSIVE StrLess(_, _)
StrLess(a, b) ==
    IF b = <<>> THEN FALSE
    ELSE IF a = <<>> THEN TRUE
    ELSE IF Head(a) # Head(b) THEN Byte(Head(a)) < Byte(Head(b))
    ELSE StrLess(Tail(a), Tail(b))

\* str::split(sep): the segments between the separators, empty ones kept.
RECURSIVE Split(_, _)
Split(s, sep) ==
    IF \A k \in 1..Len(s) : s[k] # sep THEN <<s>>
    ELSE LET k == CHOOSE j \in 1..Len(s) :
                      s[j] = sep /\ \A m \in 1..(j - 1) : s[m] # sep
         IN  <<SubSeq(s, 1, k - 1)>> \o Split(SubSeq(s, k + 1, Len(s)), sep)

\* str::trim
RECURSIVE Trim(_)
Trim(s) ==
    IF s = <<>> THEN s
    ELSE IF Head(s) = " " THEN Trim(Tail(s))
    ELSE IF s[Len(s)] = " " THEN Trim(SubSeq(s, 1, Len(s) - 1))
    ELSE s

\* Iterator::flat_map: the concatenation of a sequence of sequences.
RECURSIVE Flatten(_)
Flatten(seqs) ==
    IF seqs = <<>> THEN <<>> ELSE Head(seqs) \o Flatten(Tail(seqs))

\* helper::to_array (helper.rs:161-168)
to_array(comma_separated_values) ==
    LET parts == Split(comma_separated_values, ",")
    IN  SelectSeq([k \in 1..Len(parts) |-> Trim(parts[k])],
                  LAMBDA s : s # <<>>)

\* Mutant of validate_wallpaper_id: any alphanumeric character passes.
ValidateAnyAlphanumeric(id) ==
    ByteLen(id) = 6 /\ \A k \in 1..Len(id) : IsAlphanumeric(id[k])

\* helper::validate_wallpaper_id (helper.rs:176-178)
validate_wallpaper_id(id) ==
    ByteLen(id) = 6 /\ \A k \in 1..Len(id) : IsAsciiAlphanumeric(id[k])

\* The schemes the url crate calls special and parses with a host.
SpecialSchemes ==
    {<<"h", "t", "t", "p">>, <<"h", "t", "t", "p", "s">>, <<"w", "s">>,
     <<"w", "s", "s">>, <<"f", "t", "p">>}

\* The text after the scheme's colon, without its leading slashes.
RECURSIVE SkipSlashes(_)
SkipSlashes(s) ==
    IF s # <<>> /\ Head(s) = "/" THEN SkipSlashes(Tail(s)) ELSE s

\* The longest prefix without a character of stops.
RECURSIVE Until(_, _)
Until(s, stops) ==
    IF s = <<>> \/ Head(s) \in stops THEN <<>>
    ELSE <<Head(s)>> \o Until(Tail(s), stops)

\* helper::is_url (helper.rs:171-173): url::Url::parse(input).is_ok(). The
\* parser wants a scheme (a letter, then letters, digits, "+", "-", ".")
\* before the first colon, since there is no base URL; after a special scheme
\* it wants a host, here a non-empty run of letters, digits, "." and "-".
is_url(input) ==
    LET t == Trim(input)
        scheme == Until(t, {":"})
        rest == SubSeq(t, Len(scheme) + 2, Len(t))
        host == Until(SkipSlashes(rest), {"/", "?", "#"})
    IN  /\ Len(scheme) < Len(t)
        /\ scheme # <<>>
        /\ scheme[1] \in Upper \cup Lower
        /\ \A k \in 1..Len(scheme) :
              IsAsciiAlphanumeric(scheme[k]) \/ scheme[k] \in {"+", "-", "."}
        /\ scheme \in SpecialSchemes =>
              /\ host # <<>>
              /\ \A k \in 1..Len(host) :
                    IsAsciiAlphanumeric(host[k]) \/ host[k] \in {".", "-"}

\* The ID taken from an argument of add, remove and info (lib.rs:252-263,
\* 291-302, 453-463): of a URL, what follows the last "/" up to the first
\* "?"; any other argument as it is.
Processed(id) ==
    IF is_url(id)
    THEN LET segments == Split(id, "/")
         IN  Head(Split(segments[Len(segments)], "?"))
    ELSE id

\* slice::sort_unstable on strings.
RECURSIVE Insert(_, _)
Insert(x, sorted) ==
    IF sorted = <<>> THEN <<x>>
    ELSE IF StrLess(Head(sorted), x) THEN <<Head(sorted)>> \o Insert(x, Tail(sorted))
    ELSE <<x>> \o sorted
RECURSIVE Sort(_)
Sort(list) == IF list = <<>> THEN list ELSE Insert(Head(list), Sort(Tail(list)))

\* Mutant of Dedup: nothing is removed.
DedupKeepsAll(list) == list

\* Vec::dedup: consecutive equal elements are reduced to the first.
RECURSIVE Dedup(_)
Dedup(list) ==
    IF Len(list) < 2 THEN list
    ELSE IF list[1] = list[2] THEN Dedup(Tail(list))
    ELSE <<Head(list)>> \o Dedup(Tail(list))

\* RustPaper::add, lib.rs:249-277: every argument is replaced by its ID,
\* split at the commas, and the tokens that pass the validation are kept.
AddIds(new_wallpapers) ==
    LET mapped == [k \in 1..Len(new_wallpapers) |->
                      Processed(new_wallpapers[k])]
        tokens == Flatten([k \in 1..Len(mapped) |-> to_array(mapped[k])])
    IN  SelectSeq(tokens, validate_wallpaper_id)

\* RustPaper::remove, lib.rs:288-305.
RemoveIds(ids_to_remove) ==
    SelectSeq(Flatten([k \in 1..Len(ids_to_remove) |->
                          to_array(Processed(ids_to_remove[k]))]),
              validate_wallpaper_id)

\* RustPaper::info, lib.rs:453-470: the ID it asks the API about, or none
\* when the validation fails and info returns an error.
InfoIds(id) ==
    IF validate_wallpaper_id(Processed(id)) THEN <<Processed(id)>> ELSE <<>>

-----------------------------------------------------------------------------
(* lock.rs *)

LockEntry(id, loc, sha) ==
    [image_id |-> id, image_location |-> loc, sha256 |-> sha]

\* Positions of the entries of an ID.
EntryIdx(entries, id) == {k \in 1..Len(entries) : entries[k].image_id = id}

\* Mutant of LockAdd: every add pushes a new entry.
LockAddPush(entries, id, loc, sha) ==
    Append(entries, LockEntry(id, loc, sha))

\* LockFile::add, the in-memory part: overwrite the first entry of the ID, or
\* push a new entry.
LockAdd(entries, id, loc, sha) ==
    IF EntryIdx(entries, id) # {}
    THEN LET k == CHOOSE j \in EntryIdx(entries, id) :
                      \A m \in EntryIdx(entries, id) : j <= m
         IN  [entries EXCEPT ![k] = LockEntry(id, loc, sha)]
    ELSE Append(entries, LockEntry(id, loc, sha))

\* Mutant of LockRemove: removing an ID that is present clears the ledger.
LockRemoveClears(entries, id) ==
    IF EntryIdx(entries, id) # {} THEN <<>> ELSE entries

\* LockFile::remove, the in-memory part: retain the entries of other IDs.
LockRemove(entries, id) == SelectSeq(entries, LAMBDA e : e.image_id # id)

\* LockFile::contains
LockContains(entries, id, hash) ==
    \E k \in 1..Len(entries) :
        entries[k].image_id = id /\ entries[k].sha256 = hash

\* The ledger file: absent, truncated (opened with truncate, nothing written)
\* or the pretty-printed JSON of the entries.
DiskAbsent == [kind |-> "absent", entries |-> <<>>]
DiskTruncated == [kind |-> "truncated", entries |-> <<>>]
Serialize(entries) == [kind |-> "json", entries |-> entries]

\* LockFile::load_or_new: the parsed entries, or a new ledger on any failure.
LoadOrNew(disk) == IF disk.kind = "json" THEN disk.entries ELSE <<>>

\* The write-back of add / remove: open with truncate, write_all, flush.
WriteOutcomes == {"ok", "open_err", "write_err"}
WriteBack(disk, entries, outcome) ==
    CASE outcome = "ok" -> Serialize(entries)
      [] outcome = "open_err" -> disk
      [] outcome = "write_err" -> DiskTruncated

\* Option<LockFile>
None == [some |-> FALSE, entries |-> <<>>]
Some(entries) == [some |-> TRUE, entries |-> entries]

-----------------------------------------------------------------------------
(* lib.rs: RustPaper::sync, the plan *)

\* The starting situations of one ID on disk: the files <id>.<ext> of the save
\* directory and the ledger entry an earlier sync recorded for the ID (the
\* extension and the bytes it hashed), if any.
NoEnt == [has |-> FALSE, ext |-> "png", bytes |-> ServedBytes]
Ent(e, b) == [has |-> TRUE, ext |-> e, bytes |-> b]
Files(png, jpeg) == [e \in Exts |-> IF e = "png" THEN png ELSE jpeg]
DiskProfiles ==
    { [files |-> Files(NoFile, NoFile),          ent |-> NoEnt],
      [files |-> Files(ServedBytes, NoFile),     ent |-> Ent("png", ServedBytes)],
      [files |-> Files(OtherBytes, NoFile),      ent |-> Ent("png", ServedBytes)],
      [files |-> Files(NoFile, OtherBytes),      ent |-> NoEnt],
      [files |-> Files(ServedBytes, OtherBytes), ent |-> Ent("png", ServedBytes)] }

\* config.save_location, with and without a trailing separator.
SaveLocations == {<<"wall">>, <<"wall", "/">>}

\* The ledger entries an earlier run wrote for a profile assignment, in ID
\* order: download_image's path and the hash of the bytes written then.
RECURSIVE EntriesOf(_, _, _)
EntriesOf(prof, sl, k) ==
    IF k > Len(IdSeq) THEN <<>>
    ELSE (IF prof[IdSeq[k]].ent.has
          THEN <<LockEntry(IdSeq[k],
                           FormatPath(sl, IdSeq[k], prof[IdSeq[k]].ent.ext),
                           Sha(prof[IdSeq[k]].ent.bytes))>>
          ELSE <<>>) \o EntriesOf(prof, sl, k + 1)

NoAdd == [loc |-> <<>>, sha |-> NoHash]
NoRet == [fn |-> "none"]

\* clean is not running.
NoClean == files_to_check = {} /\ clean_removed_count = 0
FirstProcess == prev_sync = "none"
NoOp == [op |-> "none", id |-> "", existed |-> FALSE, res |-> "ok"]

NoTask == [st |-> "none", path |-> <<>>, expected |-> NoHash,
           actual |-> HashErr, redo |-> FALSE]
Idle == [pc |-> "idle", rc |-> 0, slept |-> 0, why |-> "",
         image_location |-> <<>>, sha |-> NoHash]

NoMapEntry == [has |-> FALSE, loc |-> <<>>, sha |-> NoHash]

\* lock_file_map (lib.rs:111-131): the entries collected into a HashMap, a
\* later entry of an ID replacing an earlier one; None without integrity.
LockFileMap(integ, lf) ==
    IF integ /\ lf.some
    THEN [some |-> TRUE,
          map |-> [i \in IDs |->
                    IF EntryIdx(lf.entries, i) = {} THEN NoMapEntry
                    ELSE LET k == CHOOSE j \in EntryIdx(lf.entries, i) :
                                     \A m \in EntryIdx(lf.entries, i) : m <= j
                         IN  [has |-> TRUE,
                              loc |-> lf.entries[k].image_location,
                              sha |-> lf.entries[k].sha256]]]
    ELSE [some |-> FALSE, map |-> [i \in IDs |-> NoMapEntry]]

\* Mutant of Classify: the recorded path is not compared (stale verify).
ClassifyNoPathCheck(w, fm, lm, integ) ==
    IF fm[w] # <<>>
    THEN IF integ
         THEN IF lm.some /\ lm.map[w].has
              THEN "Verify"
              ELSE "Download"
         ELSE "Skip"
    ELSE "Download"

\* The body of the planning loop (lib.rs:135-158) for one tracked ID:
\* fm is file_map, lm is lock_file_map.
Classify(w, fm, lm, integ) ==
    IF fm[w] # <<>>
    THEN IF integ
         THEN IF lm.some /\ lm.map[w].has /\ lm.map[w].loc = fm[w]
              THEN "Verify"
              ELSE "Download"
         ELSE "Skip"
    ELSE "Download"

\* build_file_map (lib.rs:33-49): every regular file of the directory keyed
\* by its stem; of two files with one stem the one read_dir lists last stays.
\* pick[i] is the extension of that file.
FileMaps(files, sl) ==
    { [i \in IDs |-> IF \A e \in Exts : files[<<i, e>>] = NoFile
                     THEN <<>>
                     ELSE JoinPath(sl, i, pick[i])] :
        pick \in { q \in [IDs -> Exts] :
                     \A i \in IDs :
                        IF \A e \in Exts : files[<<i, e>>] = NoFile
                        THEN q[i] = "png"
                        ELSE files[<<i, q[i]>>] # NoFile } }

\* A spawned verify task (lib.rs:163-164): the tuple of integrity_checks.
VerifyTask(w, fm, lm) ==
    [st |-> "run", path |-> fm[w], expected |-> lm.map[w].sha,
     actual |-> HashErr, redo |-> FALSE]

\* State after RustPaper::new (lib.rs:79-106) on some disk state: the
\* configuration is loaded, the tracked list is read, the ledger is loaded
\* when integrity is enabled. sls are the save locations drawn from.
InitOn(sls) ==
    /\ integrity \in BOOLEAN
    /\ save_location \in sls
    /\ \E tracked \in SUBSET IDs :
          wallpapers = SelectSeq(IdSeq, LAMBDA x : x \in tracked)
    /\ \E prof \in [IDs -> DiskProfiles] :
          /\ fs = [n \in FileNames |-> prof[n[1]].files[n[2]]]
          /\ lock_disk \in
                (IF EntriesOf(prof, save_location, 1) = <<>>
                 THEN {DiskAbsent} ELSE {})
                \cup {Serialize(EntriesOf(prof, save_location, 1))}
    /\ lock_file = IF integrity THEN Some(LoadOrNew(lock_disk)) ELSE None
    /\ mutex = "free"
    /\ pc = "start"
    /\ file_map = [i \in IDs |-> <<>>]
    /\ lock_file_map = LockFileMap(FALSE, None)
    /\ needs_download = <<>>
    /\ planned = [i \in IDs |-> "Untracked"]
    /\ vtask = [i \in IDs |-> NoTask]
    /\ dtask = [i \in IDs |-> Idle]
    /\ completed = 0
    /\ errors = 0
    /\ total = 0
    /\ sync_result = "running"
    /\ fs0 = fs
    /\ lock0 = lock_file
    /\ last_add = [i \in IDs |-> NoAdd]
    /\ last_op = NoOp
    /\ wallpapers_lst = wallpapers
    /\ arg = <<>>
    /\ ret = NoRet
    /\ NoClean
    /\ FirstProcess

\* Spec starts with the save location of the default configuration
\* (config.rs:19: no trailing separator).
Init == InitOn({<<"wall">>})

\* sync, lib.rs:110-188: the directory scan, the copy of the ledger taken
\* under the lock, the planning loop and the spawn of the verify tasks.
Plan ==
    /\ pc = "start"
    /\ mutex = "free"
    /\ \E fm \in FileMaps(fs, save_location) :
          LET lm == LockFileMap(integrity, lock_file)
              act == [i \in IDs |-> IF i \in Range(wallpapers)
                                    THEN Classify(i, fm, lm, integrity)
                                    ELSE "Untracked"]
          IN  /\ file_map' = fm
              /\ lock_file_map' = lm
              /\ planned' = act
              /\ needs_download' =
                    SelectSeq(wallpapers, LAMBDA w : act[w] = "Download")
              /\ vtask' = [i \in IDs |-> IF act[i] = "Verify"
                                         THEN VerifyTask(i, fm, lm)
                                         ELSE NoTask]
    /\ pc' = "verify"
    /\ UNCHANGED <<list_vars, integrity, save_location, wallpapers, fs, lock_file,
                   lock_disk, mutex, dtask, completed, errors, total,
                   sync_result, fs0, lock0, last_add, last_op>>

\* build_file_map fails (read_dir, lib.rs:39-40) and sync returns the error
\* (lib.rs:110).
PlanFail ==
    /\ pc = "start"
    /\ pc' = "done"
    /\ sync_result' = "err"
    /\ UNCHANGED <<list_vars, integrity, save_location, wallpapers, fs, lock_file,
                   lock_disk, mutex, file_map, lock_file_map, needs_download,
                   planned, vtask, dtask, completed, errors, total, fs0,
                   lock0, last_add, last_op>>

\* Mutant of ShouldDownload: a hashing error keeps the file ("Skipping").
ShouldDownloadSkipOnError(actual, expected) ==
    IF actual.ok
    THEN IF actual.val = expected THEN FALSE ELSE TRUE
    ELSE FALSE

\* The verify task's verdict (lib.rs:165-185): re-download unless the hash
\* was computed and equals the expected one.
ShouldDownload(actual, expected) ==
    IF actual.ok
    THEN IF actual.val = expected THEN FALSE ELSE TRUE
    ELSE TRUE

\* One verify task runs (lib.rs:164-186) and the orchestrator receives its
\* result (lib.rs:191-202); FuturesUnordered yields results as tasks finish.
Verify(i) ==
    /\ pc = "verify"
    /\ vtask[i].st = "run"
    /\ \E r \in HashResults(fs, vtask[i].path) :
          LET redo == ShouldDownload(r, vtask[i].expected)
          IN  /\ vtask' = [vtask EXCEPT ![i].st = "resolved",
                                        ![i].actual = r,
                                        ![i].redo = redo]
              /\ needs_download' = IF redo THEN Append(needs_download, i)
                                   ELSE needs_download
    /\ UNCHANGED <<list_vars, integrity, save_location, wallpapers, fs, lock_file,
                   lock_disk, mutex, pc, file_map, lock_file_map, planned,
                   dtask, completed, errors, total, sync_result, fs0, lock0,
                   last_add, last_op>>

\* Mutant of VerifyPhaseDone: the results of the verify tasks are not awaited.
VerifyPhaseNotAwaited == TRUE

\* The verify phase is over: check_tasks.next() returned None (lib.rs:191).
VerifyPhaseDone == \A i \in IDs : vtask[i].st # "run"

\* lib.rs:205-208: nothing to download.
UpToDate ==
    /\ pc = "verify"
    /\ VerifyPhaseDone
    /\ needs_download = <<>>
    /\ pc' = "done"
    /\ sync_result' = "ok"
    /\ UNCHANGED <<list_vars, integrity, save_location, wallpapers, fs, lock_file,
                   lock_disk, mutex, file_map, lock_file_map, needs_download,
                   planned, vtask, dtask, completed, errors, total, fs0,
                   lock0, last_add, last_op>>

\* lib.rs:210-221: one download task per element of needs_download.
Dispatch ==
    /\ pc = "verify"
    /\ VerifyPhaseDone
    /\ needs_download # <<>>
    /\ dtask' = [i \in IDs |-> IF i \in Range(needs_download)
                               THEN [Idle EXCEPT !.pc = "fetch"]
                               ELSE Idle]
    /\ total' = Len(needs_download)
    /\ needs_download' = <<>>
    /\ errors' = 0
    /\ completed' = 0
    /\ pc' = "download"
    /\ UNCHANGED <<list_vars, integrity, save_location, wallpapers, fs, lock_file,
                   lock_disk, mutex, file_map, lock_file_map, planned, vtask,
                   sync_result, fs0, lock0, last_add, last_op>>

-----------------------------------------------------------------------------
(* lib.rs: the download tasks, process_wallpaper_optimized *)

\* Mutant of Backoff: the same delay before every attempt.
BackoffFixed(retry_count) == 1

\* The delay before the next attempt (lib.rs:650).
Backoff(retry_count) == 2 ^ retry_count

\* Whether a failed attempt is followed by another one (lib.rs:649).
RetryAgain(retry_count) == retry_count + 1 < MAX_RETRY

\* The orchestrator's loop body on one task result (lib.rs:222-235).
CountCompleted(c, res) == c + 1
CountErrors(e, res) == IF res = "ok" THEN e ELSE e + 1

\* A task returns res ("ok" or the kind of its error) and the orchestrator
\* receives the result; the locals of retry_get_curl_content are gone.
Return(t, res) ==
    /\ dtask' = [dtask EXCEPT ![t].pc = IF res = "ok" THEN "ok" ELSE "err",
                              ![t].why = IF res = "ok" THEN "" ELSE res,
                              ![t].rc = 0,
                              ![t].slept = 0]
    /\ completed' = CountCompleted(completed, res)
    /\ errors' = CountErrors(errors, res)

\* What the task does with the body of a successful metadata response
\* (lib.rs:58-63): "malformed" is a body that is not JSON or has no
\* data.path, "error" a body with an error field, "data" one with data.path.
Bodies == {"data", "error", "malformed"}
AfterBody(body) ==
    CASE body = "malformed" -> "body"
      [] body = "error" -> "api"
      [] body = "data" -> "image"

\* Mutant of FetchOk: the image is downloaded before the error field of the
\* response is looked at.
FetchOkCheckLate(t) ==
    /\ pc = "download"
    /\ dtask[t].pc = "fetch"
    /\ \E body \in Bodies :
          CASE body = "data" ->
                  /\ dtask' = [dtask EXCEPT ![t].pc = "image",
                                            ![t].rc = 0,
                                            ![t].slept = 0]
                  /\ UNCHANGED <<fs, completed, errors>>
            [] body = "error" ->
                  /\ fs' = [fs EXCEPT ![<<t, ServedExt(t)>>] = ServedBytes]
                  /\ Return(t, "api")
            [] body = "malformed" ->
                  /\ fs' = fs
                  /\ Return(t, "body")
    /\ UNCHANGED <<list_vars, integrity, save_location, wallpapers, lock_file,
                   lock_disk, mutex, pc, file_map, lock_file_map,
                   needs_download, planned, vtask, total, sync_result, fs0,
                   lock0, last_add, last_op>>

\* One attempt of retry_get_curl_content that succeeds (lib.rs:647-648),
\* then lib.rs:58-62.
FetchOk(t) ==
    /\ pc = "download"
    /\ dtask[t].pc = "fetch"
    /\ \E body \in Bodies :
          IF AfterBody(body) = "image"
          THEN /\ dtask' = [dtask EXCEPT ![t].pc = "image",
                                         ![t].rc = 0,
                                         ![t].slept = 0]
               /\ UNCHANGED <<completed, errors>>
          ELSE Return(t, AfterBody(body))
    /\ UNCHANGED <<list_vars, integrity, save_location, wallpapers, fs, lock_file,
                   lock_disk, mutex, pc, file_map, lock_file_map,
                   needs_download, planned, vtask, total, sync_result, fs0,
                   lock0, last_add, last_op>>

\* One attempt of retry_get_curl_content that fails (lib.rs:649-660): sleep
\* and go round the loop, or return the error of the last attempt.
FetchErr(t) ==
    /\ pc = "download"
    /\ dtask[t].pc = "fetch"
    /\ IF RetryAgain(dtask[t].rc)
       THEN /\ dtask' = [dtask EXCEPT
                           ![t].slept = dtask[t].slept + Backoff(dtask[t].rc),
                           ![t].rc = dtask[t].rc + 1]
            /\ UNCHANGED <<completed, errors>>
       ELSE Return(t, "fetch")
    /\ UNCHANGED <<list_vars, integrity, save_location, wallpapers, fs, lock_file,
                   lock_disk, mutex, pc, file_map, lock_file_map,
                   needs_download, planned, vtask, total, sync_result, fs0,
                   lock0, last_add, last_op>>

\* Mutant of AfterImage: the ledger is updated whatever the configuration.
AfterImageAlwaysLedger(integ, lf) == "lock"

\* Mutant of AfterImage: the task is done when the image is saved.
AfterImageSkipsLedger(integ, lf) == "ok"

\* Where the task goes after the image is saved (lib.rs:64-66, 73-74).
AfterImage(integ, lf) == IF integ /\ lf.some THEN "lock" ELSE "ok"

\* download_and_save / helper::download_image (lib.rs:63, helper.rs:105-141):
\* one request; the image is saved as <save_location>/<id>.<ext>.
ImageOk(t) ==
    /\ pc = "download"
    /\ dtask[t].pc = "image"
    /\ fs' = [fs EXCEPT ![<<t, ServedExt(t)>>] = ServedBytes]
    /\ IF AfterImage(integrity, lock_file) = "lock"
       THEN /\ dtask' = [dtask EXCEPT
                           ![t].pc = "lock",
                           ![t].image_location =
                               FormatPath(save_location, t, ServedExt(t))]
            /\ UNCHANGED <<completed, errors>>
       ELSE Return(t, "ok")
    /\ UNCHANGED <<list_vars, integrity, save_location, wallpapers, lock_file, lock_disk,
                   mutex, pc, file_map, lock_file_map, needs_download,
                   planned, vtask, total, sync_result, fs0, lock0, last_add, last_op>>

\* Mutant of ImageErr: a failed image download sends the item round again.
ImageErrRetry(t) ==
    /\ pc = "download"
    /\ dtask[t].pc = "image"
    /\ dtask' = [dtask EXCEPT ![t].pc = "fetch"]
    /\ UNCHANGED <<list_vars, integrity, save_location, wallpapers, fs, lock_file,
                   lock_disk, mutex, pc, file_map, lock_file_map,
                   needs_download, planned, vtask, completed, errors, total,
                   sync_result, fs0, lock0, last_add, last_op>>

\* download_image fails (the URL, the request, the status, the body, the
\* decoding or the save): nothing is written.
ImageErr(t) ==
    /\ pc = "download"
    /\ dtask[t].pc = "image"
    /\ Return(t, "image")
    /\ UNCHANGED <<list_vars, integrity, save_location, wallpapers, fs, lock_file, lock_disk,
                   mutex, pc, file_map, lock_file_map, needs_download,
                   planned, vtask, total, sync_result, fs0, lock0, last_add, last_op>>

\* Mutant of Acquire: the task enters without waiting for the lock.
AcquireNoWait(t) ==
    /\ pc = "download"
    /\ dtask[t].pc = "lock"
    /\ mutex' = t
    /\ dtask' = [dtask EXCEPT ![t].pc = "hash"]
    /\ UNCHANGED <<list_vars, integrity, save_location, wallpapers, fs, lock_file,
                   lock_disk, pc, file_map, lock_file_map, needs_download,
                   planned, vtask, completed, errors, total, sync_result, fs0,
                   lock0, last_add, last_op>>

\* lock_file.lock().await (lib.rs:65).
Acquire(t) ==
    /\ pc = "download"
    /\ dtask[t].pc = "lock"
    /\ mutex = "free"
    /\ mutex' = t
    /\ dtask' = [dtask EXCEPT ![t].pc = "hash"]
    /\ UNCHANGED <<list_vars, integrity, save_location, wallpapers, fs, lock_file,
                   lock_disk, pc, file_map, lock_file_map, needs_download,
                   planned, vtask, completed, errors, total, sync_result, fs0,
                   lock0, last_add, last_op>>

\* Mutant of Released: the lock stays with the task that took it.
NotReleased == mutex

\* The holder of the lock after a task leaves its critical section: the
\* guard is dropped on return, with an error or not (lib.rs:65-72).
Released == "free"

\* helper::calculate_sha256(&image_location) with the lock held (lib.rs:67).
HashFile(t) ==
    /\ pc = "download"
    /\ dtask[t].pc = "hash"
    /\ \E r \in HashResults(fs, dtask[t].image_location) :
          IF r.ok
          THEN /\ dtask' = [dtask EXCEPT ![t].pc = "add", ![t].sha = r.val]
               /\ UNCHANGED <<mutex, completed, errors>>
          ELSE /\ Return(t, "hash")
               /\ mutex' = Released
    /\ UNCHANGED <<list_vars, integrity, save_location, wallpapers, fs, lock_file,
                   lock_disk, pc, file_map, lock_file_map, needs_download,
                   planned, vtask, total, sync_result, fs0, lock0, last_add, last_op>>

\* lock_file.add(...) with the lock held (lib.rs:68-70, lock.rs:54-100): the
\* entry is upserted in memory, then the whole ledger is written back.
LedgerAdd(t) ==
    /\ pc = "download"
    /\ dtask[t].pc = "add"
    /\ \E o \in WriteOutcomes :
          LET es == LockAdd(lock_file.entries, t, dtask[t].image_location,
                            dtask[t].sha)
          IN  /\ lock_file' = Some(es)
              /\ lock_disk' = WriteBack(lock_disk, es, o)
              /\ Return(t, IF o = "ok" THEN "ok" ELSE "ledger")
    /\ mutex' = Released
    /\ UNCHANGED <<list_vars, integrity, save_location, wallpapers, fs, pc, file_map,
                   lock_file_map, needs_download, planned, vtask, total,
                   sync_result, fs0, lock0, last_add, last_op>>

\* Mutant of SyncReturn: a failed item makes sync fail.
SyncReturnStrict(errs) == IF errs > 0 THEN "err" ELSE "ok"

\* What sync returns after the download phase (lib.rs:237-244).
SyncReturn(errs) == "ok"

\* Mutant of DownloadPhaseDone: the loop ends at the first result.
DownloadPhaseCutShort == \E i \in IDs : dtask[i].pc \in {"ok", "err"}

\* tasks.next() returned None (lib.rs:222): every task has resolved.
DownloadPhaseDone == \A i \in IDs : dtask[i].pc \in {"idle", "ok", "err"}

\* lib.rs:237-244.
Finish ==
    /\ pc = "download"
    /\ DownloadPhaseDone
    /\ pc' = "done"
    /\ sync_result' = SyncReturn(errors)
    /\ UNCHANGED <<list_vars, integrity, save_location, wallpapers, fs, lock_file,
                   lock_disk, mutex, file_map, lock_file_map, needs_download,
                   planned, vtask, dtask, completed, errors, total, fs0,
                   lock0, last_add, last_op>>

Next ==
    \/ Plan
    \/ PlanFail
    \/ \E i \in IDs : Verify(i)
    \/ UpToDate
    \/ Dispatch
    \/ \E t \in IDs : FetchOk(t)
    \/ \E t \in IDs : FetchErr(t)
    \/ \E t \in IDs : ImageOk(t)
    \/ \E t \in IDs : ImageErr(t)
    \/ \E t \in IDs : Acquire(t)
    \/ \E t \in IDs : HashFile(t)
    \/ \E t \in IDs : LedgerAdd(t)
    \/ Finish

Spec == Init /\ [][Next]_vars

\* One step of the download task t (lib.rs:51-75).
TaskStep(t) ==
    \/ FetchOk(t)
    \/ FetchErr(t)
    \/ ImageOk(t)
    \/ ImageErr(t)
    \/ Acquire(t)
    \/ HashFile(t)
    \/ LedgerAdd(t)

\* The tokio runtime polls every spawned task and the orchestrator that
\* awaits them (lib.rs:166-187, 212-215, 222): a step that stays possible is
\* taken, every request and file operation returning.
Fairness ==
    /\ WF_vars(Plan \/ PlanFail \/ UpToDate \/ Dispatch \/ Finish)
    /\ \A i \in IDs : WF_vars(Verify(i))
    /\ \A t \in IDs : WF_vars(TaskStep(t))

FairSpec == Spec /\ Fairness

\* main.rs: the process has ended after a sync that returned Ok and the
\* next process starts on the files it left: RustPaper::new (lib.rs:79-106)
\* reads the list file and, with integrity enabled, loads the ledger file.
NextProcess ==
    /\ pc = "done"
    /\ sync_result = "ok"
    /\ prev_sync = "none"
    /\ prev_sync' = IF total = 0 THEN "up_to_date"
                    ELSE IF errors = 0 THEN "ok" ELSE "errors"
    /\ lock_file' = IF integrity THEN Some(LoadOrNew(lock_disk)) ELSE None
    /\ lock0' = lock_file'
    /\ fs0' = fs
    /\ pc' = "start"
    /\ file_map' = [i \in IDs |-> <<>>]
    /\ lock_file_map' = LockFileMap(FALSE, None)
    /\ needs_download' = <<>>
    /\ planned' = [i \in IDs |-> "Untracked"]
    /\ vtask' = [i \in IDs |-> NoTask]
    /\ dtask' = [i \in IDs |-> Idle]
    /\ completed' = 0
    /\ errors' = 0
    /\ total' = 0
    /\ sync_result' = "running"
    /\ UNCHANGED <<integrity, save_location, wallpapers, fs, lock_disk, mutex,
                   last_add, last_op, wallpapers_lst, arg, ret, clean_vars>>

\* TwoSyncSpec: a sync, and a second sync by the next process on the list,
\* the directory and the ledger file the first one left, with either form
\* of the save location.
TwoSyncNext ==
    \/ Next
    \/ NextProcess

TwoSyncSpec == InitOn(SaveLocations) /\ [][TwoSyncNext]_vars

-----------------------------------------------------------------------------
(* lock.rs: a LockFile driven through its methods *)

\* The arguments the methods are called with: two IDs, for each ID the two
\* paths download_image can give it, and the hashes.
LedgerIds == {IdNames[1], IdNames[2]}
Locations(id) == {FormatPath(<<"wall">>, id, e) : e \in Exts}

\* LockFile::new() (lock.rs:23-27); the ledger file does not exist yet.
LedgerInit ==
    /\ integrity = TRUE
    /\ save_location = <<"wall">>
    /\ wallpapers = <<>>
    /\ fs = [n \in FileNames |-> NoFile]
    /\ lock_file = Some(<<>>)
    /\ lock_disk = DiskAbsent
    /\ mutex = "free"
    /\ pc = "ledger"
    /\ file_map = [i \in IDs |-> <<>>]
    /\ lock_file_map = LockFileMap(FALSE, None)
    /\ needs_download = <<>>
    /\ planned = [i \in IDs |-> "Untracked"]
    /\ vtask = [i \in IDs |-> NoTask]
    /\ dtask = [i \in IDs |-> Idle]
    /\ completed = 0
    /\ errors = 0
    /\ total = 0
    /\ sync_result = "running"
    /\ fs0 = fs
    /\ lock0 = lock_file
    /\ last_add = [i \in IDs |-> NoAdd]
    /\ last_op = NoOp
    /\ wallpapers_lst = wallpapers
    /\ arg = <<>>
    /\ ret = NoRet
    /\ NoClean
    /\ FirstProcess

\* LockFile::add (lock.rs:54-100).
LedgerOpAdd(id, loc, sha) ==
    /\ pc = "ledger"
    /\ Len(LockAdd(lock_file.entries, id, loc, sha)) <= MaxEntries
    /\ \E o \in WriteOutcomes :
          /\ lock_file' = Some(LockAdd(lock_file.entries, id, loc, sha))
          /\ lock_disk' = WriteBack(lock_disk, lock_file'.entries, o)
          /\ last_op' = [op |-> "add", id |-> id,
                         existed |-> last_add[id] # NoAdd,
                         res |-> IF o = "ok" THEN "ok" ELSE "err"]
    /\ last_add' = [last_add EXCEPT ![id] = [loc |-> loc, sha |-> sha]]
    /\ UNCHANGED <<list_vars, integrity, save_location, wallpapers, fs, mutex, pc,
                   file_map, lock_file_map, needs_download, planned, vtask,
                   dtask, completed, errors, total, sync_result, fs0, lock0>>

\* LockFile::remove (lock.rs:110-142): the file is written back only when an
\* entry was removed.
LedgerOpRemove(id) ==
    /\ pc = "ledger"
    /\ LET es == LockRemove(lock_file.entries, id)
       IN  /\ lock_file' = Some(es)
           /\ IF Len(es) < Len(lock_file.entries)
              THEN \E o \in WriteOutcomes :
                      /\ lock_disk' = WriteBack(lock_disk, es, o)
                      /\ last_op' = [op |-> "remove", id |-> id,
                                     existed |-> last_add[id] # NoAdd,
                                     res |-> IF o = "ok" THEN "ok" ELSE "err"]
              ELSE /\ lock_disk' = lock_disk
                   /\ last_op' = [op |-> "remove", id |-> id,
                                  existed |-> last_add[id] # NoAdd,
                                  res |-> "ok"]
    /\ last_add' = [last_add EXCEPT ![id] = NoAdd]
    /\ UNCHANGED <<list_vars, integrity, save_location, wallpapers, fs, mutex, pc,
                   file_map, lock_file_map, needs_download, planned, vtask,
                   dtask, completed, errors, total, sync_result, fs0, lock0>>

LedgerNext ==
    \/ \E id \in LedgerIds, sha \in Hashes :
          \E loc \in Locations(id) : LedgerOpAdd(id, loc, sha)
    \/ \E id \in LedgerIds : LedgerOpRemove(id)

LedgerSpec == LedgerInit /\ [][LedgerNext]_vars

-----------------------------------------------------------------------------
(* helper.rs: validate_wallpaper_id applied to a string *)

\* sync is not running and has no locals.
NoSync ==
    /\ mutex = "free"
    /\ file_map = [i \in IDs |-> <<>>]
    /\ lock_file_map = LockFileMap(FALSE, None)
    /\ needs_download = <<>>
    /\ planned = [i \in IDs |-> "Untracked"]
    /\ vtask = [i \in IDs |-> NoTask]
    /\ dtask = [i \in IDs |-> Idle]
    /\ completed = 0
    /\ errors = 0
    /\ total = 0
    /\ sync_result = "running"
    /\ fs0 = fs
    /\ lock0 = lock_file
    /\ last_add = [i \in IDs |-> NoAdd]

\* The strings validate_wallpaper_id is applied to: every string of at most
\* MaxLen characters over a lower-case letter, an upper-case letter, a digit,
\* a punctuation character and a non-ASCII letter.
MaxLen == 7
ValidateChars == {"a", "Z", "7", "-", "U+00E9"}
ValidateArgs == UNION {[1..n -> ValidateChars] : n \in 0..MaxLen}

ValidateInit ==
    /\ integrity = FALSE
    /\ save_location = <<"wall">>
    /\ wallpapers = <<>>
    /\ wallpapers_lst = <<>>
    /\ fs = [n \in FileNames |-> NoFile]
    /\ lock_file = None
    /\ lock_disk = DiskAbsent
    /\ pc = "helper"
    /\ NoSync
    /\ last_op = NoOp
    /\ arg \in ValidateArgs
    /\ ret = NoRet
    /\ NoClean
    /\ FirstProcess

\* A call of helper::validate_wallpaper_id (lib.rs:269, 304, 465).
Validate ==
    /\ pc = "helper"
    /\ ret = NoRet
    /\ ret' = [fn |-> "validate_wallpaper_id", val |-> validate_wallpaper_id(arg)]
    /\ UNCHANGED <<integrity, save_location, wallpapers, wallpapers_lst, fs,
                   lock_file, lock_disk, pc, sync_vars, last_op, arg,
                   clean_vars, prev_sync>>

ValidateSpec == ValidateInit /\ [][Validate]_vars

-----------------------------------------------------------------------------
(* lib.rs: the ID that add, remove and info take from a URL *)

\* The IDs of the list store, in the order of their bytes.
ListIdNames ==
    <<<<"7", "p", "m", "g", "v", "9">>, <<"A", "B", "C", "1", "2", "3">>,
      <<"a", "b", "c", "d", "e", "f">>>>
ListIds == Range(ListIdNames)

\* The item URLs: a scheme, a host and a path, then an ID, then nothing or
\* "?" and a query of at most MaxQuery characters.
MaxQuery == 2
UrlPrefixes ==
    {<<"h", "t", "t", "p", "s", ":", "/", "/", "h", "/", "w", "/">>,
     <<"h", "t", "t", "p", ":", "/", "/", "h", ".", "c", "c", "/">>}
QueryChars == {"a", "=", "/", ","}
Queries == UNION {[1..n -> QueryChars] : n \in 0..MaxQuery}
UrlArgs ==
    {p \o id : p \in UrlPrefixes, id \in ListIds}
        \cup {p \o id \o <<"?">> \o q :
                 p \in UrlPrefixes, id \in ListIds, q \in Queries}

UrlInit ==
    /\ integrity = FALSE
    /\ save_location = <<"wall">>
    /\ wallpapers = <<>>
    /\ wallpapers_lst = <<>>
    /\ fs = [n \in FileNames |-> NoFile]
    /\ lock_file = None
    /\ lock_disk = DiskAbsent
    /\ pc = "url"
    /\ NoSync
    /\ last_op = NoOp
    /\ arg \in UrlArgs
    /\ ret = NoRet
    /\ NoClean
    /\ FirstProcess

\* The IDs fn makes of the argument.
Extract(fn, ids) ==
    /\ pc = "url"
    /\ ret = NoRet
    /\ ret' = [fn |-> fn, val |-> ids]
    /\ UNCHANGED <<integrity, save_location, wallpapers, wallpapers_lst, fs,
                   lock_file, lock_disk, pc, sync_vars, last_op, arg,
                   clean_vars, prev_sync>>

UrlNext ==
    \/ Extract("add", AddIds(<<arg>>))
    \/ Extract("remove", RemoveIds(<<arg>>))
    \/ Extract("info", InfoIds(arg))

UrlSpec == UrlInit /\ [][UrlNext]_vars

-----------------------------------------------------------------------------
(* lib.rs: the list store, RustPaper::add and RustPaper::remove *)

\* Mutant of update_wallpaper_list: the list is appended to the file.
UpdateAppends(file, list, outcome) ==
    CASE outcome = "ok" -> file \o list
      [] outcome = "open_err" -> file
      [] outcome = "write_err" -> <<>>

\* update_wallpaper_list (lib.rs:578-596): the file is opened with truncate
\* and the list is written one ID per line through a BufWriter, which holds
\* a list of this size until the flush; an error at the open leaves the file
\* as it was, an error at the write or the flush leaves it empty.
update_wallpaper_list(file, list, outcome) ==
    CASE outcome = "ok" -> list
      [] outcome = "open_err" -> file
      [] outcome = "write_err" -> <<>>

\* load_wallpapers (lib.rs:599-616) of an existing file.
load_wallpapers(file) == Flatten([k \in 1..Len(file) |-> to_array(file[k])])

\* The arguments add and remove are called with: a bare ID, the URL of an
\* ID, two IDs in one comma-separated argument, a token that is no ID, and a
\* third ID; at most MaxArgs of them in one call.
MaxArgs == 2
ListInputs ==
    {ListIdNames[1],
     <<"h", "t", "t", "p", "s", ":", "/", "/", "h", "/", "w", "/">>
        \o ListIdNames[3],
     ListIdNames[2] \o <<",", " ">> \o ListIdNames[1],
     <<"7", "p", "m", "g", "v", "-", "9">>,
     ListIdNames[2]}
ListArgs == UNION {[1..n -> ListInputs] : n \in 1..MaxArgs}

\* The IDs add and remove make of each of these arguments, as tables.
AddIdsOf == [a \in ListArgs |-> AddIds(a)] @@ <<>>
RemoveIdsOf == [a \in ListArgs |-> RemoveIds(a)] @@ <<>>

\* The ledger entry of a downloaded ID.
ListEntry(id) ==
    LockEntry(id, FormatPath(<<"wall">>, id, "png"), Sha(ServedBytes))

\* State after RustPaper::new (lib.rs:79-106): the list file is one the
\* program wrote (valid IDs, sorted, no duplicates), the list is loaded from
\* it, and the ledger, when integrity is enabled, is loaded from a file with
\* an entry of every ID in held (tracked or not: an ID taken off the list by
\* hand keeps its entry).
ListInitOn(held) ==
    /\ integrity \in BOOLEAN
    /\ save_location = <<"wall">>
    /\ \E tracked \in SUBSET ListIds :
          wallpapers_lst = SelectSeq(ListIdNames, LAMBDA x : x \in tracked)
    /\ wallpapers = load_wallpapers(wallpapers_lst)
    /\ fs = [n \in FileNames |-> NoFile]
    /\ LET es == SelectSeq(ListIdNames, LAMBDA x : x \in held)
       IN  lock_disk = IF integrity /\ held # {}
                       THEN Serialize([k \in 1..Len(es) |-> ListEntry(es[k])])
                       ELSE DiskAbsent
    /\ lock_file = IF integrity THEN Some(LoadOrNew(lock_disk)) ELSE None
    /\ pc = "list"
    /\ NoSync
    /\ last_op = NoOp
    /\ arg = <<>>
    /\ ret = NoRet
    /\ NoClean
    /\ FirstProcess

\* ListSpec starts before anything was downloaded: the ledger is empty.
ListInit == ListInitOn({})

\* RustPaper::add (lib.rs:248-283): the list is extended, sorted and
\* deduplicated in memory, then written; the result is the write's.
Add(new_wallpapers) ==
    /\ pc = "list"
    /\ LET valid_wallpapers == AddIdsOf[new_wallpapers]
           merged == Dedup(Sort(wallpapers \o valid_wallpapers))
       IN  \E o \in WriteOutcomes :
              /\ wallpapers' = merged
              /\ wallpapers_lst' =
                    update_wallpaper_list(wallpapers_lst, merged, o)
              /\ last_op' = [op |-> "add",
                             ids |-> Range(valid_wallpapers),
                             before |-> wallpapers,
                             removed |-> 0,
                             res |-> IF o = "ok" THEN "ok" ELSE "err",
                             io |-> o # "ok"]
    /\ UNCHANGED <<integrity, save_location, fs, lock_file, lock_disk, pc,
                   sync_vars, arg, ret, clean_vars, prev_sync>>

\* The loop of lib.rs:331-333: LockFile::remove for every requested ID, up
\* to the first one that fails. fail_at is the position of the call whose
\* write, if it writes, fails with kind; 0 when no write fails.
RECURSIVE RemoveEach(_, _, _, _, _, _)
RemoveEach(entries, disk, ids, k, fail_at, kind) ==
    IF k > Len(ids) THEN [entries |-> entries, disk |-> disk, ok |-> TRUE]
    ELSE LET es == LockRemove(entries, ids[k])
         IN  IF Len(es) = Len(entries)
             THEN RemoveEach(es, disk, ids, k + 1, fail_at, kind)
             ELSE IF k = fail_at
             THEN [entries |-> es, disk |-> WriteBack(disk, es, kind),
                   ok |-> FALSE]
             ELSE RemoveEach(es, WriteBack(disk, es, "ok"), ids, k + 1,
                             fail_at, kind)

\* Mutant of Retain: a remove that finds an ID clears the list.
RetainNone(list, ids) ==
    IF \E k \in 1..Len(list) : list[k] \in Range(ids) THEN <<>> ELSE list

\* The tracked list without the requested IDs (lib.rs:315).
Retain(list, ids) == SelectSeq(list, LAMBDA id : id \notin Range(ids))

\* Mutant of removed_count: the length of the list before the call.
RemovedCountIsLength(original_len, list) == original_len

\* lib.rs:317: the number remove reports.
removed_count(original_len, list) == original_len - Len(list)

\* What remove neither reads into a local nor writes.
remove_frame == <<integrity, save_location, fs, mutex, file_map,
                  lock_file_map, needs_download, planned, vtask, dtask,
                  completed, errors, total, sync_result, fs0, lock0, last_add,
                  arg, ret, clean_vars, prev_sync>>

\* RustPaper::remove from lib.rs:307 on: ids are the valid IDs of the
\* arguments, once each. The call starts at from and leaves at to.
RemoveFrom(from, to, ids) ==
    /\ pc = from
    /\ pc' = to
    /\ LET kept == Retain(wallpapers, ids)
           removed == removed_count(Len(wallpapers), kept)
           op == [op |-> "remove", ids |-> Range(ids), before |-> <<>>]
       IN  IF ids = <<>>
           THEN /\ last_op' = op @@ [removed |-> 0, res |-> "err",
                                      io |-> FALSE]
                /\ UNCHANGED <<wallpapers, wallpapers_lst, lock_file,
                               lock_disk>>
           ELSE IF removed = 0
           THEN /\ last_op' = op @@ [removed |-> 0, res |-> "ok",
                                      io |-> FALSE]
                /\ UNCHANGED <<wallpapers, wallpapers_lst, lock_file,
                               lock_disk>>
           ELSE \E o \in WriteOutcomes :
                   /\ wallpapers' = kept
                   /\ wallpapers_lst' =
                         update_wallpaper_list(wallpapers_lst, kept, o)
                   /\ IF o # "ok"
                      THEN /\ last_op' = op @@ [removed |-> 0, res |-> "err",
                                                io |-> TRUE]
                           /\ UNCHANGED <<lock_file, lock_disk>>
                      ELSE IF ~(integrity /\ lock_file.some)
                      THEN /\ last_op' = op @@ [removed |-> removed,
                                                res |-> "ok", io |-> FALSE]
                           /\ UNCHANGED <<lock_file, lock_disk>>
                      ELSE \E fail_at \in 0..Len(ids),
                              kind \in WriteOutcomes \ {"ok"} :
                              LET r == RemoveEach(lock_file.entries, lock_disk,
                                                  ids, 1, fail_at, kind)
                              IN  /\ lock_file' = Some(r.entries)
                                  /\ lock_disk' = r.disk
                                  /\ last_op' = op @@
                                        [removed |-> IF r.ok THEN removed
                                                     ELSE 0,
                                         res |-> IF r.ok THEN "ok" ELSE "err",
                                         io |-> ~r.ok]
    /\ UNCHANGED remove_frame

\* RustPaper::remove (lib.rs:286-348).
Remove(ids_to_remove) == RemoveFrom("list", "list", RemoveIdsOf[ids_to_remove])

ListNext ==
    \/ \E new_wallpapers \in ListArgs : Add(new_wallpapers)
    \/ \E ids_to_remove \in ListArgs : Remove(ids_to_remove)

ListSpec == ListInit /\ [][ListNext]_vars

\* RemoveSpec: calls of remove after every ID was downloaded, so that the
\* ledger holds an entry of each.
RemoveInit == ListInitOn(ListIds)
RemoveNext == \E ids_to_remove \in ListArgs : Remove(ids_to_remove)
RemoveSpec == RemoveInit /\ [][RemoveNext]_vars

-----------------------------------------------------------------------------
(* lib.rs: RustPaper::clean *)

\* What clean neither reads into a local nor writes.
clean_frame == <<integrity, save_location, wallpapers, wallpapers_lst, mutex,
                 file_map, lock_file_map, needs_download, planned, vtask,
                 dtask, completed, errors, total, sync_result, fs0, lock0,
                 last_add, last_op, arg, prev_sync>>

\* The regular files of the save directory.
RegularFiles(files) == {n \in FileNames : files[n] # NoFile}

\* Mutant of IsOrphan: every file is taken for an orphan.
IsOrphanAlways(file_stem, list) == TRUE

\* lib.rs:416: the file's stem is not in the tracked list.
IsOrphan(file_stem, list) == file_stem \notin Range(list)

\* clean, lib.rs:391-414: the scan of the save directory. The files are
\* processed in the order read_dir yields them, which is any order. A save
\* directory that does not exist (lib.rs:392-398) is a scan that finds no file.
CleanScan ==
    /\ pc = "start"
    /\ pc' = "clean"
    /\ files_to_check' = RegularFiles(fs)
    /\ UNCHANGED <<clean_frame, fs, lock_file, lock_disk, ret,
                   clean_removed_count>>

\* clean, lib.rs:399 and 403: read_dir or next_entry fails and clean returns
\* the error.
CleanScanFail ==
    /\ pc = "start"
    /\ pc' = "done"
    /\ ret' = [fn |-> "clean", val |-> "scan_err"]
    /\ UNCHANGED <<clean_frame, fs, lock_file, lock_disk, clean_vars>>

\* Mutant of LedgerRemoveFailed: clean goes on after a failed ledger write.
LedgerRemoveIgnored(outcome) == FALSE

\* lib.rs:423: lock_file.remove(&file_stem).await? returns from clean when
\* the ledger write fails.
LedgerRemoveFailed(outcome) == outcome # "ok"

\* clean, lib.rs:415-437: one turn of the loop, for the file n. Of an orphan
\* the ledger entry is removed first, when integrity is enabled; then the
\* file is deleted, and counted when the deletion succeeded.
CleanFile(n) ==
    /\ pc = "clean"
    /\ n \in files_to_check
    /\ IF ~IsOrphan(n[1], wallpapers)
       THEN /\ files_to_check' = files_to_check \ {n}
            /\ UNCHANGED <<fs, lock_file, lock_disk, ret, pc,
                           clean_removed_count>>
       ELSE \E o \in WriteOutcomes, deleted \in BOOLEAN :
               LET es == IF integrity /\ lock_file.some
                         THEN LockRemove(lock_file.entries, n[1])
                         ELSE lock_file.entries
                   writes == Len(es) < Len(lock_file.entries)
               IN  /\ lock_file' = [lock_file EXCEPT !.entries = es]
                   /\ lock_disk' = IF writes THEN WriteBack(lock_disk, es, o)
                                   ELSE lock_disk
                   /\ IF writes /\ LedgerRemoveFailed(o)
                      THEN /\ pc' = "done"
                           /\ ret' = [fn |-> "clean", val |-> "err"]
                           /\ UNCHANGED <<fs, clean_vars>>
                      ELSE /\ files_to_check' = files_to_check \ {n}
                           /\ fs' = IF deleted THEN [fs EXCEPT ![n] = NoFile]
                                    ELSE fs
                           /\ clean_removed_count' =
                                 IF deleted THEN clean_removed_count + 1
                                 ELSE clean_removed_count
                           /\ UNCHANGED <<pc, ret>>
    /\ UNCHANGED clean_frame

\* clean, lib.rs:439-449: the report and Ok(()).
CleanFinish ==
    /\ pc = "clean"
    /\ files_to_check = {}
    /\ pc' = "done"
    /\ ret' = [fn |-> "clean", val |-> "ok"]
    /\ UNCHANGED <<clean_frame, fs, lock_file, lock_disk, clean_vars>>

CleanNext ==
    \/ CleanScan
    \/ CleanScanFail
    \/ \E n \in FileNames : CleanFile(n)
    \/ CleanFinish

CleanSpec == Init /\ [][CleanNext]_vars

-----------------------------------------------------------------------------
(* main.rs: one command of a process *)

\* The valid IDs remove is called with: any of the IDs, none when no argument
\* passes the validation.
CommandIds == {SelectSeq(IdSeq, LAMBDA x : x \in s) : s \in SUBSET IDs}

\* main.rs: Command::Remove.
RemoveCommand == \E ids \in CommandIds : RemoveFrom("start", "done", ids)

\* main.rs: RustPaper::new and then the one command of the process: sync,
\* clean or remove.
CommandNext ==
    \/ Next
    \/ CleanNext
    \/ RemoveCommand

CommandSpec == Init /\ [][CommandNext]_vars

-----------------------------------------------------------------------------
(* Properties *)

\* The (path, hash) pairs a ledger holds for an ID.
EntryView(entries, id) ==
    {<<entries[k].image_location, entries[k].sha256>> :
        k \in EntryIdx(entries, id)}

Tracked == Range(wallpapers)
Dispatched == {t \in IDs : dtask[t].pc # "idle"}
PlanBuilt == pc \in {"verify", "download"} \/ (pc = "done" /\ sync_result = "ok")

\* The files of an ID in the save directory when sync started.
InInventory(w) == \E e \in Exts : fs0[<<w, e>>] # NoFile

\* The rules of the planner, with the Inventory path file_map[w] and the
\* ledger as it was when sync started.
PlannerRule(w) ==
    CASE ~InInventory(w) -> "Download"
      [] InInventory(w) /\ ~integrity -> "Skip"
      [] InInventory(w) /\ integrity
           /\ \A v \in EntryView(lock0.entries, w) : v[1] # file_map[w]
           -> "Download"
      [] InInventory(w) /\ integrity
           /\ \E v \in EntryView(lock0.entries, w) : v[1] = file_map[w]
           -> "Verify"

\* C1: once the plan is built, every tracked ID has exactly one action, the
\* one the planner's rules give it (not in the Inventory: Download; in it with
\* integrity disabled: Skip; in it with integrity enabled and no ledger entry
\* or an entry with another path: Download; with an entry of the same path:
\* Verify), and right after the plan the Download IDs are exactly
\* needs_download, the Verify IDs exactly the spawned verify tasks.
C1_Classification ==
    PlanBuilt =>
        /\ \A w \in IDs :
              /\ w \in Tracked =>
                    /\ planned[w] = PlannerRule(w)
                    /\ InInventory(w) <=>
                          \E e \in Exts : /\ fs0[<<w, e>>] # NoFile
                                          /\ file_map[w] = JoinPath(save_location, w, e)
              /\ w \notin Tracked => planned[w] = "Untracked"
        /\ (pc = "verify" /\ \A i \in IDs : vtask[i].st # "resolved") =>
              \A w \in IDs :
                 /\ w \in Range(needs_download) <=> planned[w] = "Download"
                 /\ vtask[w].st = "run" <=> planned[w] = "Verify"

\* C1 witness: with integrity enabled, one tracked ID whose file is present
\* and whose ledger entry names another path is planned Download while
\* another tracked ID is planned Verify.
C1_Witness ==
    /\ pc = "verify"
    /\ integrity
    /\ \E w \in Tracked, v \in Tracked :
          /\ InInventory(w)
          /\ EntryView(lock0.entries, w) # {}
          /\ planned[w] = "Download"
          /\ planned[v] = "Verify"

\* The verify task of i found the file's hash equal to the ledger's.
Verified(i) ==
    /\ vtask[i].st = "resolved"
    /\ vtask[i].actual.ok
    /\ vtask[i].actual.val = vtask[i].expected

\* The verify task of i resolved without finding the hashes equal.
VerifyFailed(i) == vtask[i].st = "resolved" /\ ~Verified(i)

\* C2: every ID planned Verify has a verify task on the Inventory path with
\* the hash the ledger recorded; when the task resolves, its hash is the hash
\* of the file's bytes or an error; if the hashes are equal the ID is not
\* downloaded in this sync, and if they differ or the hashing failed the ID
\* is in the set downloaded in phase 2.
C2_VerifyOutcome ==
    \A i \in IDs :
        planned[i] = "Verify" =>
            /\ vtask[i].st # "none"
            /\ vtask[i].path = file_map[i]
            /\ \E v \in EntryView(lock0.entries, i) :
                  v[1] = file_map[i] /\ v[2] = vtask[i].expected
            /\ vtask[i].st = "resolved" =>
                  /\ vtask[i].actual.ok =>
                        vtask[i].actual.val = Sha(fs0[FileOf(file_map[i])])
                  /\ Verified(i) =>
                        i \notin Range(needs_download) /\ dtask[i].pc = "idle"
                  /\ VerifyFailed(i) =>
                        /\ pc = "verify" => i \in Range(needs_download)
                        /\ pc \in {"download", "done"} => i \in Dispatched

\* C2 witness: the download phase runs; one ID was verified and is not
\* downloaded, another ID's hashing failed and it is being downloaded.
C2_Witness ==
    /\ pc = "download"
    /\ \E i \in IDs, j \in IDs :
          /\ Verified(i)
          /\ dtask[i].pc = "idle"
          /\ VerifyFailed(j)
          /\ ~vtask[j].actual.ok
          /\ j \in Dispatched

\* C3: no download task exists while a verify task is unresolved, and once
\* the download phase is dispatched the IDs with a download task are exactly
\* the IDs planned Download and the IDs whose verification failed.
C3_PhasesInSequence ==
    /\ Dispatched # {} => \A i \in IDs : vtask[i].st # "run"
    /\ (pc = "download" \/ (pc = "done" /\ sync_result = "ok")) =>
          Dispatched = {i \in IDs : planned[i] = "Download"}
                          \cup {i \in IDs : VerifyFailed(i)}

\* C3 witness: the download phase was dispatched with one ID planned
\* Download and one ID promoted by a failed verification.
C3_Witness ==
    /\ pc = "download"
    /\ \E i \in Dispatched, j \in Dispatched :
          planned[i] = "Download" /\ planned[j] = "Verify" /\ VerifyFailed(j)

\* Some step of download task t is possible.
CanStep(t) ==
    ENABLED (\/ FetchOk(t) \/ FetchErr(t) \/ ImageOk(t) \/ ImageErr(t)
             \/ Acquire(t) \/ HashFile(t) \/ LedgerAdd(t))

\* C4: whatever the other tasks did, a task that succeeded has its file
\* written and, with integrity enabled, its ledger entry upserted with the
\* file's path and hash; a task that has not finished can take a step, or it
\* waits for the ledger lock and the task holding the lock can; the lock is
\* held only by a task inside its critical section, never by a finished one.
C4_Isolation ==
    /\ \A t \in IDs :
          dtask[t].pc = "ok" =>
              /\ fs[<<t, ServedExt(t)>>] = ServedBytes
              /\ integrity =>
                    EntryView(lock_file.entries, t) =
                        {<<FormatPath(save_location, t, ServedExt(t)),
                           Sha(ServedBytes)>>}
    /\ \A t \in IDs :
          dtask[t].pc \notin {"idle", "ok", "err"} =>
              \/ CanStep(t)
              \/ /\ dtask[t].pc = "lock"
                 /\ mutex \in IDs \ {t}
                 /\ CanStep(mutex)
    /\ mutex # "free" => mutex \in IDs /\ dtask[mutex].pc \in {"hash", "add"}

\* C4 witness: with integrity enabled, one task has failed while holding no
\* lock and a sibling has succeeded after it with its entry in the ledger.
C4_Witness ==
    /\ integrity
    /\ \E t \in IDs, u \in IDs :
          /\ dtask[t].pc = "err"
          /\ dtask[t].why = "ledger"
          /\ dtask[u].pc = "ok"
          /\ Len(lock_file.entries) > 0
          /\ lock_file.entries[Len(lock_file.entries)].image_id = u

Succeeded == {t \in IDs : dtask[t].pc = "ok"}
Failed == {t \in IDs : dtask[t].pc = "err"}

\* C5: at the end of the download phase the completed count is the number of
\* download tasks that succeeded and the error count the number that failed.
C5_SummaryCounts ==
    (pc = "done" /\ Dispatched # {}) =>
        /\ completed = Cardinality(Succeeded)
        /\ errors = Cardinality(Failed)

\* C6: sync returns an error only when the plan was never built; once the
\* plan is built it returns success, whatever the number of failed tasks.
C6_BestEffort ==
    /\ sync_result = "err" =>
          /\ \A i \in IDs : planned[i] = "Untracked"
          /\ Dispatched = {}
    /\ (pc = "done" /\ Dispatched # {}) =>
          /\ sync_result = "ok"
          /\ errors = Cardinality(Failed)

\* C6 witness: every download task of a sync of several IDs failed and sync
\* returned success.
C6_Witness ==
    /\ pc = "done"
    /\ Cardinality(Dispatched) > 1
    /\ Failed = Dispatched
    /\ errors = total
    /\ sync_result = "ok"

\* The total delay after a number of failed attempts: 1s after attempt 0,
\* 2s after attempt 1.
DelayAfter(failures) ==
    CASE failures = 0 -> 0
      [] failures = 1 -> 1
      [] failures = 2 -> 1 + 2

\* C7: the metadata fetch makes at most 3 attempts; a failed attempt i that
\* is not the last is followed by a wait of 2^i seconds (1s, then 2s) and
\* another attempt; the failure of the third attempt is returned with no wait
\* and no attempt after it; a success is returned at once, so after two
\* failures it is returned with a total delay of 3 seconds.
C7_Retry ==
    /\ [](\A t \in IDs :
            dtask[t].pc = "fetch" =>
                /\ dtask[t].rc \in 0..2
                /\ dtask[t].slept = DelayAfter(dtask[t].rc))
    /\ [][\A t \in IDs :
            (dtask[t].pc = "fetch" /\ dtask'[t] # dtask[t]) =>
                \/ /\ dtask'[t].pc = "fetch"
                   /\ dtask[t].rc < 2
                   /\ dtask'[t].rc = dtask[t].rc + 1
                   /\ dtask'[t].slept =
                         dtask[t].slept + (IF dtask[t].rc = 0 THEN 1 ELSE 2)
                \/ /\ dtask'[t].pc = "err"
                   /\ dtask'[t].why = "fetch"
                   /\ dtask[t].rc = 2
                   /\ dtask[t].slept = 3
                \/ /\ dtask'[t].pc = "image" \/ dtask'[t].why \in {"api", "body"}
                   /\ dtask[t].slept = DelayAfter(dtask[t].rc)]_vars

\* C7 witness: a fetch has failed twice, has waited 1+2 = 3 seconds and makes
\* its third attempt.
C7_Witness ==
    \E t \in IDs :
        dtask[t].pc = "fetch" /\ dtask[t].rc = 2 /\ dtask[t].slept = 3

\* The files of an ID in the save directory.
FilesOf(files, t) == [e \in Exts |-> files[<<t, e>>]]

\* A finished download task takes no further step.
StaysFinished(t) == dtask[t].pc \in {"ok", "err"} => dtask'[t] = dtask[t]

\* C8: a metadata response with an error field fails the task in the step
\* that receives it, with no file and no ledger change in that step; the
\* task then makes no further request (it takes no further step), it has
\* requested no image, and the files and the ledger entry of its ID are as
\* they were when sync started.
C8_ApiError ==
    /\ [](\A t \in IDs :
            dtask[t].why = "api" =>
                /\ dtask[t].pc = "err"
                /\ dtask[t].image_location = <<>>
                /\ FilesOf(fs, t) = FilesOf(fs0, t)
                /\ EntryView(lock_file.entries, t) = EntryView(lock0.entries, t))
    /\ [][\A t \in IDs :
            /\ (dtask'[t].why = "api" /\ dtask[t].why # "api") =>
                  /\ dtask[t].pc = "fetch"
                  /\ fs' = fs
                  /\ lock_file' = lock_file
                  /\ lock_disk' = lock_disk
            /\ StaysFinished(t)]_vars

\* C8 witness: sync is over, one task failed on an API error while the file
\* of its ID was absent, and it counted as an error.
C8_Witness ==
    /\ pc = "done"
    /\ \E t \in IDs :
          /\ dtask[t].why = "api"
          /\ fs[<<t, ServedExt(t)>>] = NoFile
          /\ errors > 0

\* C9: the image is requested once per task: the step that requests it ends
\* the request, with the file written and the task going on, or with the
\* task failed; no later step of the task requests it again; a task that
\* failed there has no ledger upsert for its ID.
C9_ImageOnce ==
    /\ [](\A t \in IDs :
            dtask[t].why = "image" =>
                /\ dtask[t].pc = "err"
                /\ EntryView(lock_file.entries, t) = EntryView(lock0.entries, t))
    /\ [][\A t \in IDs :
            /\ (dtask[t].pc = "image" /\ dtask'[t] # dtask[t]) =>
                  \/ /\ dtask'[t].pc \in {"lock", "ok"}
                     /\ fs'[<<t, ServedExt(t)>>] = ServedBytes
                  \/ /\ dtask'[t].pc = "err"
                     /\ dtask'[t].why = "image"
                     /\ lock_file' = lock_file
                     /\ lock_disk' = lock_disk
            /\ dtask[t].pc \notin {"fetch", "image"} => dtask'[t].pc # "image"
            /\ StaysFinished(t)]_vars

\* C9 witness: with integrity enabled, a task failed in the image download
\* and a sibling succeeded.
C9_Witness ==
    /\ integrity
    /\ pc = "done"
    /\ \E t \in IDs, u \in IDs :
          dtask[t].why = "image" /\ dtask[u].pc = "ok"

\* C10: from the empty ledger, after any adds and removes, the ledger holds
\* at most one entry per ID, that entry has the path and hash of the latest
\* add of the ID, and contains(id, h) is true exactly when h is the hash of
\* the latest add of an ID that was not removed since.
C10_Upsert ==
    \A id \in IDs :
        /\ Cardinality(EntryIdx(lock_file.entries, id)) <= 1
        /\ EntryView(lock_file.entries, id) =
              IF last_add[id] = NoAdd THEN {}
              ELSE {<<last_add[id].loc, last_add[id].sha>>}
        /\ \A h \in Hashes \cup {NoHash} :
              LockContains(lock_file.entries, id, h) <=>
                  (last_add[id] # NoAdd /\ last_add[id].sha = h)

\* C10 witness: the last call added an ID that the ledger already held, with
\* another path and another hash, next to an entry of another ID.
C10_Witness ==
    /\ last_op.op = "add"
    /\ last_op.existed
    /\ Len(lock_file.entries) = 2
    /\ lock_file.entries[1].image_id = last_op.id
    /\ lock_file.entries[1].sha256 = Sha(OtherBytes)
    /\ LockContains(lock_file.entries, last_op.id, Sha(OtherBytes))
    /\ ~LockContains(lock_file.entries, last_op.id, Sha(ServedBytes))

\* C11: an add that returns Ok leaves the ledger file holding exactly the
\* in-memory ledger, and an add that returns an error leaves the ledger file
\* loading the ledger it loaded before, so that between two adds the file
\* is the ledger of the last completed add.
C11_UpsertPersists ==
    [][last_op'.op = "add" =>
          IF last_op'.res = "ok"
          THEN lock_disk' = Serialize(lock_file'.entries)
          ELSE LoadOrNew(lock_disk') = LoadOrNew(lock_disk)]_vars

\* C12: remove(id) of an ID the ledger does not hold changes neither the
\* ledger nor the ledger file; remove(id) of an ID it holds drops the entries
\* of that ID, keeps the entries of every other ID as they were and in their
\* order, and, when it returns Ok, has rewritten the file with the whole
\* ledger.
C12_Remove ==
    [][last_op'.op = "remove" =>
          LET id == last_op'.id
              old == lock_file.entries
              new == lock_file'.entries
          IN  IF EntryIdx(old, id) = {}
              THEN new = old /\ lock_disk' = lock_disk /\ last_op'.res = "ok"
              ELSE /\ EntryIdx(new, id) = {}
                   /\ Len(new) = Len(old) - Cardinality(EntryIdx(old, id))
                   /\ \A o \in LedgerIds \ {id} :
                         EntryView(new, o) = EntryView(old, o)
                   /\ \A j, k \in 1..Len(old) :
                         (j < k /\ old[j].image_id # id /\ old[k].image_id # id)
                            => \E m, n \in 1..Len(new) :
                                  m < n /\ new[m] = old[j] /\ new[n] = old[k]
                   /\ last_op'.res = "ok" => lock_disk' = Serialize(new)]_vars

\* C12 witness: the last call removed an ID the ledger held and returned Ok;
\* the entry of the other ID is still there, in memory and in the file.
C12_Witness ==
    /\ last_op.op = "remove"
    /\ last_op.existed
    /\ last_op.res = "ok"
    /\ Len(lock_file.entries) = 1
    /\ lock_file.entries[1].image_id # last_op.id
    /\ lock_disk = Serialize(lock_file.entries)

\* C12 witness, the absent case: the last call removed an ID the ledger did
\* not hold, while the ledger file was still absent.
C12_WitnessAbsent ==
    /\ last_op.op = "remove"
    /\ ~last_op.existed
    /\ lock_disk = DiskAbsent

\* The task is inside the ledger block of lib.rs:65-71.
InLedgerBlock(t) == dtask[t].pc \in {"hash", "add"}

\* The task is in a network request: the metadata fetch with its backoff
\* sleeps, or the image download.
OnNetwork(t) == dtask[t].pc \in {"fetch", "image"}

\* C13: the ledger lock is held exactly by the task that is inside its ledger
\* block, so at most one task is inside at a time; a task in a network
\* request does not hold it; and the ledger, in memory or on disk, changes
\* only in a step of the task that holds the lock.
C13_LedgerUnderLock ==
    /\ [](/\ \A t \in IDs : mutex = t <=> InLedgerBlock(t)
          /\ \A t, u \in IDs : (InLedgerBlock(t) /\ InLedgerBlock(u)) => t = u
          /\ \A t \in IDs : OnNetwork(t) => mutex # t
          /\ mutex \in IDs \cup {"free"})
    /\ [][(lock_file' # lock_file \/ lock_disk' # lock_disk) =>
             /\ mutex \in IDs
             /\ dtask[mutex].pc = "add"
             /\ dtask'[mutex].pc \in {"ok", "err"}
             /\ mutex' = "free"]_vars

\* C13 witness: one task is writing the ledger with the lock held while the
\* other task has its image and waits for the lock.
C13_Witness ==
    \E t, u \in IDs :
        /\ t # u
        /\ mutex = t
        /\ dtask[t].pc = "add"
        /\ dtask[u].pc = "lock"

\* C19: validate_wallpaper_id returns true exactly for the strings of six
\* characters that are all ASCII letters or digits, of either case.
C19_Validation ==
    ret.fn = "validate_wallpaper_id" =>
        (ret.val <=>
            /\ Len(arg) = 6
            /\ \A k \in 1..Len(arg) : arg[k] \in Digit \cup Upper \cup Lower)

\* C19 witness: a string of six characters with a digit, an upper-case and
\* a lower-case letter was accepted.
C19_Witness ==
    /\ ret.fn = "validate_wallpaper_id"
    /\ ret.val
    /\ \E i, j, k \in 1..Len(arg) :
          arg[i] \in Digit /\ arg[j] \in Upper /\ arg[k] \in Lower

\* C19 witness, rejection: six letters and digits followed by a seventh, six
\* bytes that are not six characters, and the empty string were rejected.
C19_WitnessRejected ==
    /\ ret.fn = "validate_wallpaper_id"
    /\ ~ret.val
    /\ \/ Len(arg) = 7 /\ \A k \in 1..7 : IsAsciiAlphanumeric(arg[k])
       \/ ByteLen(arg) = 6 /\ Len(arg) = 5

\* The last segment of the path of a URL: what stands between the last "/"
\* before the query and the "?" that starts the query.
LastPathSegment(url) ==
    LET path == Split(Head(Split(url, "?")), "/")
    IN  path[Len(path)]

\* C20: of an item URL whose last path segment is an ID, with a query or
\* without, add, remove and info take exactly that segment, and it passes
\* the validation.
C20_UrlExtraction ==
    ret.fn \in {"add", "remove", "info"} =>
        /\ is_url(arg)
        /\ LastPathSegment(arg) \in ListIds
        /\ ret.val = <<LastPathSegment(arg)>>
        /\ validate_wallpaper_id(ret.val[1])

\* The same for the URLs whose query holds no "/": these are extracted
\* as C20 says.
C20_NoSlashInQuery ==
    (/\ ret.fn \in {"add", "remove", "info"}
     /\ \A k \in 1..Len(arg) : arg[k] = "/" => \A j \in 1..k : arg[j] # "?")
        => /\ is_url(arg)
           /\ ret.val = <<LastPathSegment(arg)>>
           /\ validate_wallpaper_id(ret.val[1])

\* The IDs of a set in ascending order of their bytes, each once.
Ascending(ids) == SelectSeq(ListIdNames, LAMBDA x : x \in ids)

\* C14: an add that returns Ok leaves the tracked list equal to the IDs
\* tracked before together with the valid IDs of its arguments, ascending
\* and each once, and leaves the list file holding exactly that list, one ID
\* per line.
C14_AddMerges ==
    [][(last_op'.op = "add" /\ last_op'.res = "ok") =>
          /\ last_op'.ids \subseteq ListIds
          /\ wallpapers' = Ascending(Range(wallpapers) \cup last_op'.ids)
          /\ wallpapers_lst' = wallpapers']_vars

\* C14 witness: an add returned Ok that brought one new ID and one ID that
\* was tracked already to a list of two; all three IDs are tracked and in
\* the file.
C14_Witness ==
    /\ last_op.op = "add"
    /\ last_op.res = "ok"
    /\ Len(last_op.before) = 2
    /\ Cardinality(last_op.ids) = 2
    /\ Cardinality(last_op.ids \cap Range(last_op.before)) = 1
    /\ wallpapers = ListIdNames
    /\ wallpapers_lst = ListIdNames

\* C15: after every add and every remove that returned Ok, the list file
\* holds exactly the tracked list.
C15_FileIsList ==
    (last_op.op \in {"add", "remove"} /\ last_op.res = "ok") =>
        /\ wallpapers_lst = wallpapers
        /\ load_wallpapers(wallpapers_lst) = wallpapers

\* The same for the calls that wrote the file: after every add that returned
\* Ok and every remove that returned Ok having removed an ID, the list file
\* holds exactly the tracked list. (A remove that finds nothing to remove
\* returns Ok without writing.)
C15_FileIsListAfterMutation ==
    (/\ last_op.op \in {"add", "remove"}
     /\ last_op.res = "ok"
     /\ last_op.op = "remove" => last_op.removed > 0)
        => /\ wallpapers_lst = wallpapers
           /\ load_wallpapers(wallpapers_lst) = wallpapers

\* A remove returned Ok that took one of two tracked IDs off
\* the list; the file holds the one that is left.
C15_Witness ==
    /\ last_op.op = "remove"
    /\ last_op.res = "ok"
    /\ last_op.removed = 1
    /\ Len(wallpapers) = 1
    /\ wallpapers_lst = wallpapers

\* C16: an add that returned Ok, followed by an add of the same IDs that
\* returns Ok, leaves the tracked list and the list file as the first add
\* left them.
C16_AddIdempotent ==
    [][(/\ last_op.op = "add"
        /\ last_op.res = "ok"
        /\ last_op'.op = "add"
        /\ last_op'.res = "ok"
        /\ last_op'.ids = last_op.ids)
          => /\ wallpapers' = wallpapers
             /\ Len(wallpapers') = Len(wallpapers)
             /\ wallpapers_lst' = wallpapers_lst]_vars

\* C16 witness: an add of IDs that were all tracked already returned Ok;
\* the list is the list before the call and the file holds it.
C16_Witness ==
    /\ last_op.op = "add"
    /\ last_op.res = "ok"
    /\ last_op.ids # {}
    /\ last_op.ids \subseteq Range(last_op.before)
    /\ wallpapers = last_op.before
    /\ wallpapers_lst = wallpapers

\* The step is a remove that returns Ok, of the one ID that the add before
\* it, which returned Ok, was called with.
RemoveAfterAdd ==
    /\ last_op.op = "add"
    /\ last_op.res = "ok"
    /\ Cardinality(last_op.ids) = 1
    /\ last_op'.op = "remove"
    /\ last_op'.res = "ok"
    /\ last_op'.ids = last_op.ids

\* C17: an add of a valid ID followed by a remove of the same ID leaves the
\* tracked set as it was before the add, and the list file holding it.
C17_RoundTrip ==
    [][RemoveAfterAdd =>
          /\ Range(wallpapers') = Range(last_op.before)
          /\ wallpapers_lst' = wallpapers']_vars

\* C17, amended: when the ID was not tracked before the add, an add of it
\* followed by a remove of it leaves the tracked list as it was before the
\* add, and the list file holding it.
C17_RoundTripOfNewId ==
    [][(RemoveAfterAdd /\ last_op.ids \cap Range(last_op.before) = {}) =>
          /\ wallpapers' = last_op.before
          /\ wallpapers_lst' = wallpapers']_vars

\* C17 witness: a remove of one ID returned Ok and took it off a list that
\* the add before had brought to three IDs; two are left, in the file too.
C17_Witness ==
    /\ last_op.op = "remove"
    /\ last_op.res = "ok"
    /\ last_op.removed = 1
    /\ Cardinality(last_op.ids) = 1
    /\ Len(wallpapers) = 2
    /\ wallpapers_lst = wallpapers

\* C18: a remove that returns Ok has taken off the tracked list the
\* requested valid IDs that were on it and nothing else, and reports their
\* number; when none of them was on the list it has left the list, the list
\* file and the ledger as they were, and otherwise the file holds the new
\* list. A remove of valid IDs of which none is tracked returns Ok.
C18_RemoveFilters ==
    [][last_op'.op = "remove" =>
          LET ids == last_op'.ids
              found == ids \cap Range(wallpapers)
          IN  /\ last_op'.res = "ok" =>
                    /\ wallpapers' =
                          SelectSeq(wallpapers, LAMBDA w : w \notin ids)
                    /\ last_op'.removed = Cardinality(found)
                    /\ found # {} => wallpapers_lst' = wallpapers'
              /\ found = {} =>
                    /\ wallpapers' = wallpapers
                    /\ wallpapers_lst' = wallpapers_lst
                    /\ lock_file' = lock_file
                    /\ lock_disk' = lock_disk
                    /\ ids # {} => last_op'.res = "ok"]_vars

\* C18 witness: a remove of two valid IDs returned Ok and reported 1: one
\* of them was tracked; the other tracked IDs are still on the list.
C18_Witness ==
    /\ last_op.op = "remove"
    /\ last_op.res = "ok"
    /\ Cardinality(last_op.ids) = 2
    /\ last_op.removed = 1
    /\ wallpapers # <<>>
    /\ Range(wallpapers) \cap last_op.ids = {}
    /\ integrity

\* C18 witness, nothing found: a remove of a valid ID returned Ok and
\* reported 0 while the list file was not the tracked list; it did not write.
C18_WitnessNoneFound ==
    /\ last_op.op = "remove"
    /\ last_op.res = "ok"
    /\ last_op.ids # {}
    /\ last_op.removed = 0
    /\ wallpapers_lst # wallpapers

\* Every tracked ID passes the validation.
TrackedAreValid ==
    \A k \in 1..Len(wallpapers) : validate_wallpaper_id(wallpapers[k])

\* C21: in add and remove a token that fails the validation never enters the
\* tracked list, starts no download, and is not an error: a call whose tokens
\* are all invalid leaves the list as it was, and a call returns an error
\* only when a write of the list file or of the ledger file failed.
C21_InvalidTokensNotFatal ==
    /\ [](last_op.op \in {"add", "remove"} => TrackedAreValid)
    /\ [][last_op'.op \in {"add", "remove"} =>
             /\ last_op'.ids = {} => wallpapers' = wallpapers
             /\ UNCHANGED <<fs, dtask, vtask>>
             /\ last_op'.res = "err" => last_op'.io]_vars

\* The same for add alone: this holds.
C21_AddDropsInvalid ==
    /\ [](last_op.op \in {"add", "remove"} => TrackedAreValid)
    /\ [][last_op'.op = "add" =>
             /\ last_op'.ids = {} => wallpapers' = wallpapers
             /\ UNCHANGED <<fs, dtask, vtask>>
             /\ last_op'.res = "err" => last_op'.io]_vars


\* The files clean has deleted.
Deleted == {n \in FileNames : fs0[n] # NoFile /\ fs[n] = NoFile}

\* C22: clean deletes a regular file of the save directory only if the stem
\* of its name is not in the tracked list, it never deletes or alters a file
\* whose stem is tracked, and the number of removals it counts and reports is
\* the number of files it has deleted.
C22_CleanDeletesOrphans ==
    /\ \A n \in FileNames : fs[n] \in {fs0[n], NoFile}
    /\ \A n \in Deleted : n[1] \notin Range(wallpapers)
    /\ clean_removed_count = Cardinality(Deleted)

\* clean has returned from a directory of one tracked and one untracked file:
\* the untracked file is gone, the tracked one is there, 1 is reported.
C22_Witness ==
    /\ pc = "done" /\ ret = [fn |-> "clean", val |-> "ok"]
    /\ Cardinality(RegularFiles(fs0)) = 2
    /\ \E n \in RegularFiles(fs0) :
          n[1] \in Range(wallpapers) /\ fs[n] = fs0[n]
    /\ \E n \in Deleted : n[1] \notin Range(wallpapers)
    /\ clean_removed_count = 1

\* The stems of the orphans the scan of clean found.
OrphanStems ==
    {n[1] : n \in {f \in RegularFiles(fs0) : IsOrphan(f[1], wallpapers)}}

C23_DeletionFailureContinues ==
    [][(pc = "clean" /\ files_to_check' # files_to_check
            /\ fs' = fs /\ clean_removed_count' = clean_removed_count)
          => (pc' = "clean" /\ ret' = ret)]_vars

\* A deletion has failed and clean has returned success all the same.
C23_WitnessDeletionFailed ==
    /\ pc = "done" /\ ret = [fn |-> "clean", val |-> "ok"]
    /\ \E n \in RegularFiles(fs) : n[1] \in OrphanStems

\* The ledger entries hold none of the ID.
NoEntry(entries, id) == EntryIdx(entries, id) = {}

\* C24: with integrity enabled, a download task that has succeeded has left
\* the entry of its ID, with the path and the hash of the file it saved, in
\* the ledger, and in the ledger file when it succeeds; a remove that
\* succeeds leaves no entry, in memory or in the file, of an ID it took from
\* the tracked list; and an orphan file that clean has deleted has no entry,
\* in memory or in the file.
C24_LedgerLifecycle ==
    /\ [](integrity =>
            /\ \A t \in IDs :
                  dtask[t].pc = "ok" =>
                     \E k \in EntryIdx(lock_file.entries, t) :
                        lock_file.entries[k] =
                           LockEntry(t, dtask[t].image_location, dtask[t].sha)
            /\ \A n \in Deleted :
                  /\ NoEntry(lock_file.entries, n[1])
                  /\ NoEntry(LoadOrNew(lock_disk), n[1]))
    /\ [][integrity =>
            /\ \A t \in IDs :
                  (dtask[t].pc # "ok" /\ dtask'[t].pc = "ok") =>
                     \E k \in EntryIdx(LoadOrNew(lock_disk'), t) :
                        LoadOrNew(lock_disk')[k] =
                           LockEntry(t, dtask[t].image_location, dtask[t].sha)
            /\ (last_op'.op = "remove" /\ last_op'.res = "ok") =>
                  \A id \in Range(wallpapers) \ Range(wallpapers') :
                     /\ NoEntry(lock_file'.entries, id)
                     /\ NoEntry(LoadOrNew(lock_disk'), id)]_vars

\* clean has deleted an orphan that had an entry in the ledger and in the
\* ledger file.
C24_Witness ==
    /\ integrity /\ ret = [fn |-> "clean", val |-> "ok"]
    /\ \E n \in Deleted : ~NoEntry(lock0.entries, n[1])
    /\ lock_disk.kind = "json"

\* One download has created the entry of its ID and another has updated
\* its own, and the ledger file holds both.
C24_WitnessDownload ==
    /\ integrity /\ pc = "done"
    /\ \E t, u \in IDs :
          /\ dtask[t].pc = "ok" /\ dtask[u].pc = "ok"
          /\ NoEntry(lock0.entries, t)
          /\ ~NoEntry(lock0.entries, u)
          /\ ~NoEntry(LoadOrNew(lock_disk), t)
          /\ ~NoEntry(LoadOrNew(lock_disk), u)

\* remove has taken an ID that had an entry from the tracked list.
C24_WitnessRemove ==
    /\ integrity /\ pc = "done"
    /\ last_op.op = "remove" /\ last_op.res = "ok"
    /\ \E id \in last_op.ids :
          ~NoEntry(lock0.entries, id) /\ NoEntry(lock_file.entries, id)

\* The steps a download task can take from each of its positions.
StepsOf(from) ==
    CASE from = "idle" -> {"fetch"}
      [] from = "fetch" -> {"fetch", "image", "err"}
      [] from = "image" -> {"lock", "ok", "err"}
      [] from = "lock" -> {"hash"}
      [] from = "hash" -> {"add", "err"}
      [] from = "add" -> {"ok", "err"}
      [] OTHER -> {}

\* C25: a download task fetches the metadata (with retries), checks it for
\* an API error, downloads the image and writes it as <id>.<ext>, and then,
\* only when integrity is enabled, hashes the file it wrote and upserts the
\* ledger with the path and the hash of that file; it succeeds only after
\* the upsert has succeeded (after the write of the image when integrity is
\* disabled), and an error of the hash or of the ledger write makes it count
\* as an error.
C25_TaskStepOrder ==
    [][\A t \in IDs :
          LET from == dtask[t].pc
              to == dtask'[t].pc
          IN  dtask'[t] # dtask[t] =>
                /\ to \in StepsOf(from)
                /\ (from = "fetch" /\ to = "err") =>
                      dtask'[t].why \in {"fetch", "body", "api"}
                /\ (from = "image" /\ to # "err") =>
                      /\ fs'[<<t, ServedExt(t)>>] = ServedBytes
                      /\ to = (IF integrity THEN "lock" ELSE "ok")
                /\ (from = "image" /\ to = "lock") =>
                      dtask'[t].image_location =
                         FormatPath(save_location, t, ServedExt(t))
                /\ (from = "hash" /\ to = "add") =>
                      dtask'[t].sha = Sha(fs[<<t, ServedExt(t)>>])
                /\ (from = "add" /\ to = "ok") =>
                      /\ lock_disk' = Serialize(lock_file'.entries)
                      /\ \E k \in EntryIdx(lock_file'.entries, t) :
                            lock_file'.entries[k] =
                               LockEntry(t, dtask[t].image_location,
                                         dtask[t].sha)
                /\ (from = "hash" /\ to = "err") => dtask'[t].why = "hash"
                /\ (from = "add" /\ to = "err") => dtask'[t].why = "ledger"
                /\ to = "err" =>
                      errors' = errors + 1 /\ completed' = completed + 1
                /\ to = "ok" =>
                      errors' = errors /\ completed' = completed + 1]_vars

\* With integrity enabled one task has succeeded, one has failed at the
\* write of the ledger, and both are counted.
C25_Witness ==
    /\ integrity
    /\ \E t, u \in IDs :
          /\ dtask[t].pc = "ok"
          /\ dtask[u].pc = "err" /\ dtask[u].why = "ledger"
    /\ errors = 1 /\ completed = 2

\* A task has failed at the hash of the file it wrote.
C25_WitnessHashError ==
    \E t \in IDs : dtask[t].pc = "err" /\ dtask[t].why = "hash"

\* The task t waits for the ledger lock that the task h holds.
Stalls(h, t) == h # t /\ mutex = h /\ dtask[t].pc = "lock"

\* C26: a download task hashes the file it saved before it takes the ledger
\* lock: the lock is never held by a task that is on the network or that is
\* reading its file for the hash, and no task that is hashing keeps another
\* task waiting for the lock.
C26_ShortCriticalSection ==
    \A h \in IDs :
       /\ (OnNetwork(h) \/ dtask[h].pc = "hash") => mutex # h
       /\ dtask[h].pc = "hash" => \A t \in IDs : ~Stalls(h, t)

\* The part of it that is about the network holds: no task holds the lock
\* while it fetches the metadata or downloads the image.
C26_NoLockOnNetwork ==
    \A h \in IDs : OnNetwork(h) => mutex # h

\* A task holds the lock while another is on the network.
C26_WitnessNetwork ==
    \E h, t \in IDs : mutex = h /\ OnNetwork(t)

\* sync has returned, no verify or download task is unresolved, every ID
\* planned for download has ended ok or err, and as many download results
\* were received as tasks were dispatched.
Terminated ==
    /\ pc = "done"
    /\ \A i \in IDs : vtask[i].st # "run"
    /\ \A t \in Dispatched : dtask[t].pc \in {"ok", "err"}
    /\ \A i \in IDs : planned[i] = "Download" => i \in Dispatched
    /\ completed = total /\ total = Cardinality(Dispatched)

\* C27: under fair scheduling, every request and file operation returning,
\* sync eventually returns, and from then on every verify task and every
\* download task that was dispatched is resolved, every ID planned for
\* download has ended downloaded or failed, and the download results
\* received are as many as the tasks dispatched; a dispatched task is never
\* withdrawn and a resolved one never changes.
C27_SyncTerminates ==
    /\ <>[]Terminated
    /\ [][\A t \in IDs :
             /\ t \in Dispatched => dtask'[t].pc # "idle"
             /\ dtask[t].pc \in {"ok", "err"} => dtask'[t] = dtask[t]]_vars

\* sync has returned after two download tasks, one of which failed.
C27_Witness ==
    /\ pc = "done" /\ sync_result = "ok"
    /\ Cardinality(Dispatched) = 2
    /\ completed = 2 /\ errors = 1

\* The second sync, after a first one in which every download succeeded, has
\* made its plan.
SecondPlanBuilt == prev_sync = "ok" /\ PlanBuilt

\* C28: with integrity enabled, the sync that follows a sync in which every
\* download succeeded, on the list, the directory and the ledger that one
\* left, plans Verify for every tracked ID, every verification that gets a
\* hash passes, and no download task is dispatched.
C28_SyncConverges ==
    (integrity /\ SecondPlanBuilt) =>
        \A i \in Tracked :
           /\ planned[i] = "Verify"
           /\ (vtask[i].st = "resolved" /\ vtask[i].actual.ok)
                 => ~vtask[i].redo
           /\ i \in Dispatched => ~vtask[i].actual.ok

\* One file for each stem in the save directory.
OneFilePerStem ==
    \A i \in IDs : Cardinality({e \in Exts : fs[<<i, e>>] # NoFile}) <= 1

\* It holds when the save location is written without a trailing separator
\* and the directory holds one file for each stem.
C28_ConvergesOnPlainDirectory ==
    (save_location = <<"wall">> /\ OneFilePerStem) => C28_SyncConverges

\* The second sync has found every ID up to date after the first one
\* downloaded at least one.
C28_WitnessConverged ==
    /\ integrity /\ prev_sync = "ok" /\ pc = "done" /\ sync_result = "ok"
    /\ Cardinality(Tracked) = 2
    /\ \A i \in Tracked : NoEntry(lock_disk.entries, i) = FALSE
    /\ \A i \in Tracked : vtask[i].st = "resolved" /\ ~vtask[i].redo
    /\ \A i \in Tracked : fs[<<i, "png">>] = ServedBytes
    /\ Dispatched = {}

\* The ledger entries hold the entry the download task t made.
HoldsEntryOf(entries, t) ==
    \E k \in EntryIdx(entries, t) :
       entries[k] = LockEntry(t, dtask[t].image_location, dtask[t].sha)

\* C29: with integrity enabled, once every download task of a sync has
\* finished, the ledger in memory and the ledger file both hold the entry,
\* with the task's path and hash, of every ID whose task succeeded, and the
\* file holds what the ledger in memory holds.
C29_NoLostUpdate ==
    (integrity /\ pc = "done" /\ sync_result = "ok") =>
        /\ \A t \in IDs :
              dtask[t].pc = "ok" =>
                 /\ HoldsEntryOf(lock_file.entries, t)
                 /\ HoldsEntryOf(LoadOrNew(lock_disk), t)
        /\ LoadOrNew(lock_disk) = lock_file.entries

\* It holds of the syncs in which no write of the ledger file failed,
\* whatever the interleaving of the tasks.
C29_NoLostUpdateWithoutWriteError ==
    (\A t \in IDs : dtask[t].why # "ledger") => C29_NoLostUpdate

\* Two tasks have succeeded and both entries are in the ledger file.
C29_WitnessBothWritten ==
    /\ integrity /\ pc = "done"
    /\ \A t \in IDs : dtask[t].pc = "ok" /\ HoldsEntryOf(LoadOrNew(lock_disk), t)

\* The tracked IDs that had no file in the save directory when the command
\* started.
Missing == {i \in Tracked : \A e \in Exts : fs0[<<i, e>>] = NoFile}

\* C30: with integrity disabled the ledger is never loaded and no step of
\* sync, remove or clean changes the ledger in memory (absent) or the ledger
\* file; sync spawns no verify task and no task hashes a file; it leaves
\* the files of the tracked IDs that have one as they are, and it downloads
\* exactly the tracked IDs that have no file.
C30_IntegrityDisabled ==
    /\ [](~integrity =>
            /\ lock_file = None
            /\ \A i \in IDs :
                  /\ vtask[i] = NoTask
                  /\ dtask[i].pc \notin {"lock", "hash", "add"}
                  /\ dtask[i].sha = NoHash
            /\ PlanBuilt =>
                  /\ Range(needs_download) \cup Dispatched = Missing
                  /\ \A i \in Tracked \ Missing :
                        \A e \in Exts : fs[<<i, e>>] = fs0[<<i, e>>])
    /\ [][~integrity => UNCHANGED <<lock_file, lock_disk>>]_vars

\* With integrity disabled and a ledger file with entries on the disk, sync
\* has skipped a tracked ID that has a file and downloaded one that has none.
C30_Witness ==
    /\ ~integrity /\ pc = "done" /\ sync_result = "ok"
    /\ lock_disk.kind = "json" /\ lock_disk.entries # <<>>
    /\ \E i, j \in Tracked :
          /\ planned[i] = "Skip" /\ dtask[i].pc = "idle"
          /\ j \in Missing /\ dtask[j].pc = "ok"

\* With integrity disabled remove has taken from the list an ID that has an
\* entry in the ledger file.
C30_WitnessRemove ==
    /\ ~integrity /\ last_op.op = "remove" /\ last_op.res = "ok"
    /\ last_op.removed > 0
    /\ \E id \in last_op.ids :
          id \notin Tracked /\ ~NoEntry(LoadOrNew(lock_disk), id)

\* With integrity disabled clean has deleted an orphan that has an entry in
\* the ledger file.
C30_WitnessClean ==
    /\ ~integrity /\ ret = [fn |-> "clean", val |-> "ok"]
    /\ \E n \in Deleted : ~NoEntry(LoadOrNew(lock_disk), n[1])

=============================================================================
